---- MODULE Spec2Model ----
(***************************************************************************)
(* A model of the rhdl kernel compiler core: the clock-coherence pass over *)
(* a typed Object, the type/clock inference of a MIR, the data-flow-graph  *)
(* inlining of calls and the RHIF interpreter (VM).  Each part has its own *)
(* specification over the shared variables; the variables of the parts a   *)
(* specification does not use stay at their idle values.                   *)
(***************************************************************************)
EXTENDS Integers, Sequences, FiniteSets, TLC

VARIABLES
    cc_kind,      \* check_clock_coherence: obj.kind, Slot -> Kind
    cc_map,       \* ColorMap.map, Slot -> SlotColor
    cc_pc,        \* number of opcodes of obj.ops already visited
    cc_result,    \* "idle" | "running" | "ok" | "err"
    cc_err,       \* the ICE raised, or "none"
    cc_hist,      \* history of the run: what the visited opcodes contained
    dfg_design,   \* make_data_flow: design.objects, FunctionId -> Object
    dfg_base,     \* DataFlowGraphContext.base
    dfg_next_free,\* DataFlowGraphContext.next_free
    dfg_object,   \* DataFlowGraphContext.object, the FunctionId of the current Object
    dfg_pc,       \* opcodes of the current Object already computed by func()
    dfg_stack,    \* the compute() calls in progress: their saved base, object, pc
    dfg_status,   \* "idle" | "running" | "done" | "err"
    dfg_graph,    \* DataFlowGraphContext.dfg: its nodes and edges
    dfg_exit,     \* history: the context before and after the last Exec left
    vm_top,       \* vm::execute: the Object handed to the outermost call
    vm_args,      \* the arguments handed to the outermost call
    vm_obj,       \* VMState.obj of the call that is executing
    vm_regs,      \* VMState.reg_stack of the call that is executing
    vm_pc,        \* opcodes execute_block has started, over all calls
    vm_stack,     \* the calls suspended in an Exec: their obj and reg_stack
    vm_status,    \* "idle" | "running" | "ok" | "err" | "panic"
    vm_error,     \* the error the outermost call returned
    vm_result,    \* the TypedBits the outermost call returned
    vm_hist,      \* history: the last opcode attempted and the state it met
    inf_mir,      \* mir::infer: the Mir handed to infer
    inf_ctx,      \* MirTypeInference.ctx: the bindings of the type variables
    inf_slot_map, \* MirTypeInference.slot_map, Slot -> TypeId
    inf_type_ops, \* MirTypeInference.type_ops
    inf_pc,       \* the statement of infer() that runs next
    inf_round,    \* loop_count of the try_type_ops call in progress
    inf_status,   \* "idle" | "running" | "ok" | "err"
    inf_error,    \* the error infer() returned
    inf_kind,     \* Object.kind of the Object infer() returned
    inf_var,      \* the type variables ty_var has made
    inf_hist,     \* history: the rounds of the last try_type_ops call
    inf_unfixed,  \* history: the literals no opcode gave a sign or a length
    tb_call,      \* TypedBits: the operation applied and its operands
    tb_result,    \* the Result the operation returned
    mux_obj,      \* RemoveUnneededMuxesPass: the Object handed to run()
    mux_args,     \* the arguments the VM executes the Objects with
    mux_once,     \* the Result of run() on mux_obj
    mux_twice,    \* the Result of run() on the Object of mux_once
    mux_pc,       \* "idle" | "start" | "once" | "twice"
    stc_obj,      \* SymbolTableIsComplete: the Object handed to run()
    stc_result,   \* the Result of run(), <<>> before the pass has run
    mb_ast,       \* Compiler::compile: the ast::Block handed to compile()
    mb_compiler,  \* the Compiler: its blocks, reg_count, active_block, types
    mb_result,    \* the Result of compile(), <<>> before it has run
    cpe_input,    \* ClockPosEdge.input: the items the iterator still holds
    cpe_sample,   \* ClockPosEdge.sample
    cpe_state,    \* ClockPosEdge.state
    cpe_time,     \* ClockPosEdge.time
    cpe_next_time,\* ClockPosEdge.next_time
    cpe_period,   \* ClockPosEdge.period
    cpe_out,      \* history: the samples next() has returned, in order
    axi_cr,       \* basic_subordinate_kernel: the ClockReset of the cycle
    axi_i,        \* the input I of the cycle
    axi_q,        \* the Q of the cycle: the outputs of addr, data and resp
    axi_o,        \* the output O the kernel returned, <<>> before it ran
    axi_d         \* the D the kernel returned, <<>> before it ran

cc_vars == <<cc_kind, cc_map, cc_pc, cc_result, cc_err, cc_hist>>
dfg_vars == <<dfg_design, dfg_base, dfg_next_free, dfg_object, dfg_pc,
              dfg_stack, dfg_status, dfg_graph, dfg_exit>>
vm_vars == <<vm_top, vm_args, vm_obj, vm_regs, vm_pc, vm_stack, vm_status,
             vm_error, vm_result, vm_hist>>
inf_vars == <<inf_mir, inf_ctx, inf_slot_map, inf_type_ops, inf_pc, inf_round,
              inf_status, inf_error, inf_kind, inf_var, inf_hist,
              inf_unfixed>>
tb_vars == <<tb_call, tb_result>>
mux_vars == <<mux_obj, mux_args, mux_once, mux_twice, mux_pc>>
stc_vars == <<stc_obj, stc_result>>
mb_vars == <<mb_ast, mb_compiler, mb_result>>
cpe_vars == <<cpe_input, cpe_sample, cpe_state, cpe_time, cpe_next_time,
              cpe_period, cpe_out>>
axi_vars == <<axi_cr, axi_i, axi_q, axi_o, axi_d>>
vars == <<cc_vars, dfg_vars, vm_vars, inf_vars, tb_vars, mux_vars, stc_vars,
          mb_vars, cpe_vars, axi_vars>>

(***************************************************************************)
(* Bounds of the model.                                                    *)
(***************************************************************************)
\* registers of an Object handed to the clock-coherence pass
NumRegs == 3
\* opcodes of an Object handed to the clock-coherence pass
MaxOps == 2
\* Objects of a Design handed to make_data_flow
DfgObjects == 3
\* opcodes of an Object of that Design
DfgMaxOps == 2
\* registers of an Object handed to the VM
NumVmRegs == 3
\* opcodes the VM executes, over all calls
MaxVmOps == 2
\* opcodes of a Mir handed to infer
MaxMirOps == 2
\* literals of a Mir handed to infer
MaxMirLits == 1
\* opcodes of an Object handed to the mux-removal pass
MuxMaxOps == 2
\* opcodes of an Object handed to the completeness pass
StcMaxOps == 2
\* width of the unsigned operands of an addition
MaxBits == 8
\* width of the signed operands of an addition
SignedBits == 3
\* width of the values that are cast
CastBits == 4
\* width of the operands of a subtraction and of the bitwise operators
BinaryBits == 2
\* bits set in the values that xor is applied to
XorOnes == 3
\* longest clock period handed to clock_pos_edge
MaxPeriod == 6
\* items of the longest input iterator handed to clock_pos_edge
MaxSamples == 3
\* calls of ClockPosEdge::next
MaxCalls == 9
\* digits of an integer literal
LitDigits == 2
\* width of the Kind inferred for a literal
LitBits == 4

(***************************************************************************)
(* Kinds and colors.                                                       *)
(***************************************************************************)
Colors == {"Red", "Green"}

KBits == [tag |-> "Bits"]
KEmpty == [tag |-> "Empty"]
KSignal(color) == [tag |-> "Signal", color |-> color]
KTuple(elements) == [tag |-> "Tuple", elements |-> elements]
KArray(base) == [tag |-> "Array", base |-> base]

\* SlotColor: Multicolor, Single(color), Uncolored
Multicolor == "Multicolor"
Uncolored == "Uncolored"
Single(color) == color
SlotColor == {Multicolor, Uncolored} \cup Colors

\* a mutation of the fold step: two equal single colors conflict
merge_step_equal_conflicts(acc, color) ==
    IF acc = Uncolored THEN color
    ELSE IF color = Uncolored THEN acc
    ELSE Multicolor

\* the closure folded by get_merged_color
merge_step(acc, color) ==
    IF acc = Uncolored THEN color
    ELSE IF color = Uncolored THEN acc
    ELSE IF acc \in Colors /\ color \in Colors /\ acc = color THEN Single(acc)
    ELSE Multicolor

RECURSIVE fold_colors(_, _)
fold_colors(acc, seq) ==
    IF seq = <<>> THEN acc
    ELSE fold_colors(merge_step(acc, Head(seq)), Tail(seq))

get_merged_color(seq) == fold_colors(Uncolored, seq)

RECURSIVE get_slot_color_for_kind(_)
get_slot_color_for_kind(kind) ==
    CASE kind.tag = "Array" -> get_slot_color_for_kind(kind.base)
      [] kind.tag = "Tuple" ->
            get_merged_color([i \in 1..Len(kind.elements) |->
                                get_slot_color_for_kind(kind.elements[i])])
      [] kind.tag = "Signal" -> Single(kind.color)
      [] OTHER -> Uncolored

(***************************************************************************)
(* The clock-coherence pass.                                               *)
(***************************************************************************)
CCSlots == 0..(NumRegs - 1)

CCKinds == {KBits,
            KSignal("Red"),
            KSignal("Green"),
            KTuple(<<KSignal("Red"), KSignal("Green")>>),
            KArray(KTuple(<<KBits, KSignal("Green")>>))}

CCOps ==
    [code : {"Binary"}, lhs : CCSlots, arg1 : CCSlots, arg2 : CCSlots]
    \cup [code : {"Unary"}, lhs : CCSlots, arg1 : CCSlots]
    \cup [code : {"Select"}, lhs : CCSlots, cond : CCSlots,
          true_value : CCSlots, false_value : CCSlots]
    \cup [code : {"Index"}, lhs : CCSlots, arg : CCSlots, magic : BOOLEAN]
    \cup [code : {"Case"}, lhs : CCSlots, discriminant : CCSlots]
    \cup [code : {"Assign"}, lhs : CCSlots, rhs : CCSlots]

\* the state of a run of the pass: the color map and the error, if any
CCOk(map) == [map |-> map, err |-> "none"]
CCFail(map, err) == [map |-> map, err |-> err]

\* ColorMap::get_color on a state: the color, or none when the slot is missing
has_color(st, slot) == slot \in DOMAIN st.map

\* a mutation of ColorMap::unify: the merged color is stored unchecked
unify_unchecked(st, slot, color) ==
    IF st.err # "none" THEN st
    ELSE IF slot \in DOMAIN st.map
         THEN CCOk([st.map EXCEPT ![slot] = get_merged_color(<<st.map[slot], color>>)])
         ELSE CCOk([s \in DOMAIN st.map \cup {slot} |->
                       IF s = slot THEN color ELSE st.map[s]])

\* ColorMap::unify, threaded through `?`: a failed state stays failed
cc_unify(st, slot, color) ==
    IF st.err # "none" THEN st
    ELSE IF slot \in DOMAIN st.map
         THEN LET new_color == get_merged_color(<<st.map[slot], color>>)
              IN IF new_color = Multicolor
                 THEN CCFail(st.map, "SlotHasConflictingColors")
                 ELSE CCOk([st.map EXCEPT ![slot] = new_color])
         ELSE CCOk([s \in DOMAIN st.map \cup {slot} |->
                       IF s = slot THEN color ELSE st.map[s]])

\* the slots an opcode reads through get_color
cc_reads(op) ==
    CASE op.code = "Binary" -> {op.arg1, op.arg2}
      [] op.code = "Unary" -> {op.arg1}
      [] op.code = "Select" -> {op.true_value, op.false_value, op.cond}
      [] op.code = "Index" -> IF op.magic THEN {op.arg} ELSE {}
      [] op.code = "Case" -> {op.lhs}
      [] OTHER -> {}

\* one iteration of the loop over obj.ops in check_clock_coherence
cc_visit(st, op) ==
    IF \E s \in cc_reads(op) : ~has_color(st, s)
    THEN CCFail(st.map, "MissingSlotInColorMap")
    ELSE
    CASE op.code = "Binary" ->
            LET arg1_color == st.map[op.arg1]
                arg2_color == st.map[op.arg2]
                lhs_color == get_merged_color(<<arg1_color, arg2_color>>)
            IN cc_unify(st, op.lhs, lhs_color)
      [] op.code = "Unary" ->
            cc_unify(st, op.lhs, st.map[op.arg1])
      [] op.code = "Select" ->
            LET true_color == st.map[op.true_value]
                st1 == cc_unify(st, op.cond, true_color)
                false_color == st.map[op.false_value]
                st2 == cc_unify(st1, op.cond, false_color)
            IN IF st2.err # "none" THEN st2
               ELSE LET cond_color == st2.map[op.cond]
                        lhs_color ==
                            get_merged_color(<<cond_color, true_color, false_color>>)
                    IN cc_unify(st2, op.lhs, lhs_color)
      [] op.code = "Index" ->
            IF op.magic THEN cc_unify(st, op.lhs, st.map[op.arg]) ELSE st
      [] op.code = "Case" ->
            cc_unify(st, op.discriminant, st.map[op.lhs])
      [] OTHER -> st

\* whether the colors an opcode brings together conflict in the map it is
\* visited under: two sources of color for one slot that do not merge
cc_sources(map, op) ==
    CASE op.code = "Binary" -> <<map[op.lhs], map[op.arg1], map[op.arg2]>>
      [] op.code = "Unary" -> <<map[op.lhs], map[op.arg1]>>
      [] op.code = "Select" ->
            <<map[op.cond], map[op.true_value], map[op.false_value], map[op.lhs]>>
      [] op.code = "Index" ->
            IF op.magic THEN <<map[op.lhs], map[op.arg]>> ELSE <<>>
      [] op.code = "Case" -> <<map[op.discriminant], map[op.lhs]>>
      [] OTHER -> <<>>

cc_conflict(map, op) ==
    LET src == cc_sources(map, op)
    IN \/ \E i, j \in 1..Len(src) :
            src[i] \in Colors /\ src[j] \in Colors /\ src[i] # src[j]
       \/ \E i \in 1..Len(src) : src[i] = Multicolor

\* whether an opcode assigns a signal of one domain to a slot of another
cc_cross_assign(kind, op) ==
    /\ op.code = "Assign"
    /\ kind[op.lhs].tag = "Signal"
    /\ kind[op.rhs].tag = "Signal"
    /\ kind[op.lhs].color # kind[op.rhs].color

CCHist0 == [conflict |-> FALSE, cross_assign |-> FALSE, visited |-> "none"]

\* the construction of the ColorMap from obj.kind
CCStart ==
    /\ cc_result = "idle"
    /\ cc_result' = "running"
    /\ cc_map' = [s \in DOMAIN cc_kind |-> get_slot_color_for_kind(cc_kind[s])]
    /\ UNCHANGED <<cc_kind, cc_pc, cc_err, cc_hist>>
    /\ UNCHANGED <<dfg_vars, vm_vars, inf_vars, tb_vars, mux_vars, stc_vars, mb_vars, cpe_vars, axi_vars>>

\* the visit of the next opcode of obj.ops
CCVisit ==
    /\ cc_result = "running"
    /\ cc_pc < MaxOps
    /\ \E op \in CCOps :
        LET st == cc_visit(CCOk(cc_map), op)
        IN /\ cc_map' = st.map
           /\ cc_err' = st.err
           /\ cc_result' = IF st.err = "none" THEN "running" ELSE "err"
           /\ cc_hist' = [conflict |-> cc_conflict(cc_map, op),
                          cross_assign |-> cc_hist.cross_assign
                                             \/ cc_cross_assign(cc_kind, op),
                          visited |-> op.code]
    /\ cc_pc' = cc_pc + 1
    /\ UNCHANGED cc_kind
    /\ UNCHANGED <<dfg_vars, vm_vars, inf_vars, tb_vars, mux_vars, stc_vars, mb_vars, cpe_vars, axi_vars>>

\* the end of obj.ops: the pass returns Ok(input)
CCFinish ==
    /\ cc_result = "running"
    /\ cc_result' = "ok"
    /\ UNCHANGED <<cc_kind, cc_map, cc_pc, cc_err, cc_hist>>
    /\ UNCHANGED <<dfg_vars, vm_vars, inf_vars, tb_vars, mux_vars, stc_vars, mb_vars, cpe_vars, axi_vars>>

\* the parts a specification does not run
CCIdle ==
    /\ cc_kind = <<>>
    /\ cc_map = <<>>
    /\ cc_pc = 0
    /\ cc_result = "idle"
    /\ cc_err = "none"
    /\ cc_hist = CCHist0

DFGIdle ==
    /\ dfg_design = <<>>
    /\ dfg_base = [register_offset |-> 0, literal_offset |-> 0]
    /\ dfg_next_free = [register_offset |-> 0, literal_offset |-> 0]
    /\ dfg_object = 0
    /\ dfg_pc = 0
    /\ dfg_stack = <<>>
    /\ dfg_status = "idle"
    /\ dfg_graph = [nodes |-> {}, edges |-> {}]
    /\ dfg_exit = [left |-> FALSE]

VMIdle ==
    /\ vm_top = <<>>
    /\ vm_args = <<>>
    /\ vm_obj = <<>>
    /\ vm_regs = <<>>
    /\ vm_pc = 0
    /\ vm_stack = <<>>
    /\ vm_status = "idle"
    /\ vm_error = [ice |-> FALSE, what |-> "none"]
    /\ vm_result = <<>>
    /\ vm_hist = [event |-> "none"]

InfIdle ==
    /\ inf_mir = <<>>
    /\ inf_ctx = <<>>
    /\ inf_slot_map = <<>>
    /\ inf_type_ops = <<>>
    /\ inf_pc = "start"
    /\ inf_round = 0
    /\ inf_status = "idle"
    /\ inf_error = [kind |-> "none"]
    /\ inf_kind = <<>>
    /\ inf_var = 0
    /\ inf_hist = <<>>
    /\ inf_unfixed = {}

TBIdle ==
    /\ tb_call = [op |-> "none"]
    /\ tb_result = <<>>

MuxIdle ==
    /\ mux_obj = <<>>
    /\ mux_args = <<>>
    /\ mux_once = <<>>
    /\ mux_twice = <<>>
    /\ mux_pc = "idle"

STCIdle ==
    /\ stc_obj = <<>>
    /\ stc_result = <<>>

MBIdle ==
    /\ mb_ast = <<>>
    /\ mb_compiler = <<>>
    /\ mb_result = <<>>

CPEIdle ==
    /\ cpe_input = 0
    /\ cpe_sample = <<>>
    /\ cpe_state = "Done"
    /\ cpe_time = 0
    /\ cpe_next_time = 0
    /\ cpe_period = 0
    /\ cpe_out = <<>>

AXIIdle ==
    /\ axi_cr = <<>>
    /\ axi_i = <<>>
    /\ axi_q = <<>>
    /\ axi_o = <<>>
    /\ axi_d = <<>>

CCInit ==
    /\ cc_kind \in [CCSlots -> CCKinds]
    /\ cc_map = <<>>
    /\ cc_pc = 0
    /\ cc_result = "idle"
    /\ cc_err = "none"
    /\ cc_hist = CCHist0
    /\ DFGIdle
    /\ VMIdle
    /\ InfIdle
    /\ TBIdle
    /\ MuxIdle
    /\ STCIdle
    /\ MBIdle
    /\ CPEIdle
    /\ AXIIdle

CCNext == CCStart \/ CCVisit \/ CCFinish

SpecCoherence == CCInit /\ [][CCNext]_vars

(***************************************************************************)
(* Properties of the clock-coherence pass.                                 *)
(***************************************************************************)
\* C3 (as claimed): an Object in which a signal of one domain is assigned to
\* a slot of another domain is never accepted by the clock-coherence pass.
CCRejectsCrossAssign == cc_hist.cross_assign => cc_result # "ok"

\* C4: whenever the colors an opcode brings together for one slot conflict
\* in the map the opcode is visited under, the pass has returned an error.
CCConflictIsError == cc_hist.conflict => cc_result = "err"

\* C4 witness: a Select whose sources conflict was visited and the pass
\* failed with the conflicting-colors error.
CCConflictWitness ==
    /\ cc_hist.conflict
    /\ cc_hist.visited = "Select"
    /\ cc_result = "err"
    /\ cc_err = "SlotHasConflictingColors"

\* two slot colors unify when merging them does not give Multicolor
Unifies(c1, c2) == get_merged_color(<<c1, c2>>) # Multicolor

\* C5 (as claimed): the unification of slot colors is reflexive and
\* transitive over all the slots of the color map.
CCUnifyReflexiveTransitive ==
    \A a, b, c \in DOMAIN cc_map :
        /\ Unifies(cc_map[a], cc_map[a])
        /\ (Unifies(cc_map[a], cc_map[b]) /\ Unifies(cc_map[b], cc_map[c]))
              => Unifies(cc_map[a], cc_map[c])

\* C5 (amended): every slot color other than Multicolor unifies with itself,
\* and unification is transitive through a middle slot that is colored.
CCUnifyReflexiveTransitiveColored ==
    \A a, b, c \in DOMAIN cc_map :
        /\ cc_map[a] # Multicolor => Unifies(cc_map[a], cc_map[a])
        /\ (/\ cc_map[b] # Uncolored
            /\ Unifies(cc_map[a], cc_map[b])
            /\ Unifies(cc_map[b], cc_map[c]))
              => Unifies(cc_map[a], cc_map[c])

\* C5 witness: opcodes have been visited and three different slots hold
\* colors that unify through a colored middle slot.
CCUnifyWitness ==
    /\ cc_result = "running"
    /\ cc_pc > 0
    /\ \E a, b, c \in DOMAIN cc_map :
        /\ a # b /\ b # c /\ a # c
        /\ cc_map[b] \in Colors
        /\ cc_map[a] = Uncolored
        /\ Unifies(cc_map[a], cc_map[b])
        /\ Unifies(cc_map[b], cc_map[c])

(***************************************************************************)
(* The data-flow graph of a Design, with calls inlined.                    *)
(***************************************************************************)
DfgIds == 0..(DfgObjects - 1)
DfgTop == 0

Register(ndx) == [kind |-> "Register", ndx |-> ndx]

\* the external function an Exec of `caller` names: a kernel of a later
\* FunctionId, which the Design may lack, or an external definition that is
\* no kernel
DfgExternals ==
    [code : {"Kernel"}, callee : 1..(DfgObjects - 1)] \cup {[code |-> "Extern"]}

DfgShapes == {[code |-> "Assign"]} \cup [code : {"Exec"}, ext : DfgExternals]

DfgShapeSeqs == UNION {[1..n -> DfgShapes] : n \in 0..DfgMaxOps}

\* the k-th opcode of the Object `caller`: an Assign, or an Exec
DfgOpAt(caller, shape, k) ==
    IF shape.code = "Assign"
    THEN [code |-> "Assign", lhs |-> Register(k), rhs |-> Register(k - 1)]
    ELSE [code |-> "Exec", lhs |-> Register(k), args |-> <<Register(k - 1)>>,
          ext |-> IF shape.ext.code = "Kernel"
                  THEN [code |-> "Kernel", fn_id |-> caller + shape.ext.callee]
                  ELSE [code |-> "Extern"]]

DfgObject(caller, shapes) ==
    [ops |-> [k \in 1..Len(shapes) |-> DfgOpAt(caller, shapes[k], k)],
     arguments |-> <<Register(0)>>,
     return_slot |-> Register(Len(shapes)),
     reg_max_index |-> Len(shapes),
     literal_max_index |-> 0]

\* Relocation::relocate
relocate(base, slot) ==
    IF slot.kind = "Register"
    THEN [kind |-> "Register", ndx |-> slot.ndx + base.register_offset]
    ELSE IF slot.kind = "Literal"
    THEN [kind |-> "Literal", ndx |-> slot.ndx + base.literal_offset]
    ELSE slot

\* DataFlowGraphContext::allocate: the next free offsets after obj
allocate_next(next_free, obj) ==
    [register_offset |-> next_free.register_offset + obj.reg_max_index + 1,
     literal_offset |-> next_free.literal_offset + obj.literal_max_index + 1]

\* DataFlowGraphContext::node for a set of slots, and add_edge
with_nodes(graph, base, slots) ==
    [graph EXCEPT !.nodes = @ \cup {relocate(base, slot) : slot \in slots}]

with_edges(graph, edges) == [graph EXCEPT !.edges = @ \cup edges]

DfgCurrent == dfg_design[dfg_object]

DfgContext == [base |-> dfg_base, object |-> dfg_object]

\* make_data_flow up to the call of func(): the base of the top Object and
\* the nodes of its arguments and return slot
DFGStart ==
    /\ dfg_status = "idle"
    /\ dfg_status' = "running"
    /\ dfg_base' = dfg_next_free
    /\ dfg_next_free' = allocate_next(dfg_next_free, dfg_design[DfgTop])
    /\ dfg_object' = DfgTop
    /\ dfg_graph' = with_nodes(dfg_graph, dfg_next_free,
                               {dfg_design[DfgTop].arguments[1],
                                dfg_design[DfgTop].return_slot})
    /\ UNCHANGED <<dfg_design, dfg_pc, dfg_stack, dfg_exit>>
    /\ UNCHANGED <<cc_vars, vm_vars, inf_vars, tb_vars, mux_vars, stc_vars, mb_vars, cpe_vars, axi_vars>>

\* compute() of an Assign: an edge from rhs to lhs
DFGAssign ==
    /\ dfg_status = "running"
    /\ dfg_pc < Len(DfgCurrent.ops)
    /\ LET op == DfgCurrent.ops[dfg_pc + 1]
       IN /\ op.code = "Assign"
          /\ dfg_graph' = with_edges(with_nodes(dfg_graph, dfg_base, {op.lhs, op.rhs}),
                                     {<<relocate(dfg_base, op.rhs),
                                        relocate(dfg_base, op.lhs)>>})
    /\ dfg_pc' = dfg_pc + 1
    /\ UNCHANGED <<dfg_design, dfg_base, dfg_next_free, dfg_object, dfg_stack,
                   dfg_status, dfg_exit>>
    /\ UNCHANGED <<cc_vars, vm_vars, inf_vars, tb_vars, mux_vars, stc_vars, mb_vars, cpe_vars, axi_vars>>

\* compute() of an Exec whose external function is no kernel, or is a kernel
\* the Design does not hold: bail!/ok_or after the nodes of our scope are made
DFGExecFail ==
    /\ dfg_status = "running"
    /\ dfg_pc < Len(DfgCurrent.ops)
    /\ LET op == DfgCurrent.ops[dfg_pc + 1]
       IN /\ op.code = "Exec"
          /\ IF op.ext.code = "Kernel"
             THEN op.ext.fn_id \notin DOMAIN dfg_design
             ELSE TRUE
          /\ dfg_graph' = with_nodes(dfg_graph, dfg_base, {op.lhs, op.args[1]})
    /\ dfg_status' = "err"
    /\ dfg_exit' = [left |-> TRUE, before |-> DfgContext, after |-> DfgContext]
    /\ UNCHANGED <<dfg_design, dfg_base, dfg_next_free, dfg_object, dfg_pc, dfg_stack>>
    /\ UNCHANGED <<cc_vars, vm_vars, inf_vars, tb_vars, mux_vars, stc_vars, mb_vars, cpe_vars, axi_vars>>

\* compute() of an Exec up to its call of func(): the callee is allocated,
\* base and object are saved and swapped, arguments and return are linked
DFGExecEnter ==
    /\ dfg_status = "running"
    /\ dfg_pc < Len(DfgCurrent.ops)
    /\ LET op == DfgCurrent.ops[dfg_pc + 1]
       IN /\ op.code = "Exec"
          /\ op.ext.code = "Kernel"
          /\ op.ext.fn_id \in DOMAIN dfg_design
          /\ LET callee == dfg_design[op.ext.fn_id]
                 callee_base == dfg_next_free
                 g1 == with_nodes(dfg_graph, dfg_base, {op.lhs, op.args[1]})
                 g2 == with_nodes(g1, callee_base,
                                  {callee.arguments[1], callee.return_slot})
             IN /\ dfg_next_free' = allocate_next(dfg_next_free, callee)
                /\ dfg_stack' = Append(dfg_stack,
                                       [base |-> dfg_base, object |-> dfg_object,
                                        pc |-> dfg_pc])
                /\ dfg_base' = callee_base
                /\ dfg_object' = op.ext.fn_id
                /\ dfg_graph' = with_edges(g2,
                        {<<relocate(dfg_base, op.args[1]),
                           relocate(callee_base, callee.arguments[1])>>,
                         <<relocate(callee_base, callee.return_slot),
                           relocate(dfg_base, op.lhs)>>})
    /\ dfg_pc' = 0
    /\ UNCHANGED <<dfg_design, dfg_status, dfg_exit>>
    /\ UNCHANGED <<cc_vars, vm_vars, inf_vars, tb_vars, mux_vars, stc_vars, mb_vars, cpe_vars, axi_vars>>

\* func() of the callee returned Ok: base and object are restored
DFGExecReturn ==
    /\ dfg_status = "running"
    /\ dfg_pc = Len(DfgCurrent.ops)
    /\ dfg_stack # <<>>
    /\ LET frame == dfg_stack[Len(dfg_stack)]
       IN /\ dfg_base' = frame.base
          /\ dfg_object' = frame.object
          /\ dfg_pc' = frame.pc + 1
          /\ dfg_exit' = [left |-> TRUE,
                          before |-> [base |-> frame.base, object |-> frame.object],
                          after |-> [base |-> frame.base, object |-> frame.object]]
    /\ dfg_stack' = SubSeq(dfg_stack, 1, Len(dfg_stack) - 1)
    /\ UNCHANGED <<dfg_design, dfg_next_free, dfg_status, dfg_graph>>
    /\ UNCHANGED <<cc_vars, vm_vars, inf_vars, tb_vars, mux_vars, stc_vars, mb_vars, cpe_vars, axi_vars>>

\* func() of the callee returned Err: `self.func()?` leaves compute() at
\* once, and the lines that restore base and object are not run
DFGExecPropagate ==
    /\ dfg_status = "err"
    /\ dfg_stack # <<>>
    /\ LET frame == dfg_stack[Len(dfg_stack)]
       IN dfg_exit' = [left |-> TRUE,
                       before |-> [base |-> frame.base, object |-> frame.object],
                       after |-> DfgContext]
    /\ dfg_stack' = SubSeq(dfg_stack, 1, Len(dfg_stack) - 1)
    /\ UNCHANGED <<dfg_design, dfg_base, dfg_next_free, dfg_object, dfg_pc,
                   dfg_status, dfg_graph>>
    /\ UNCHANGED <<cc_vars, vm_vars, inf_vars, tb_vars, mux_vars, stc_vars, mb_vars, cpe_vars, axi_vars>>

\* func() of the top Object returned Ok: make_data_flow returns the graph
DFGDone ==
    /\ dfg_status = "running"
    /\ dfg_pc = Len(DfgCurrent.ops)
    /\ dfg_stack = <<>>
    /\ dfg_status' = "done"
    /\ UNCHANGED <<dfg_design, dfg_base, dfg_next_free, dfg_object, dfg_pc,
                   dfg_stack, dfg_graph, dfg_exit>>
    /\ UNCHANGED <<cc_vars, vm_vars, inf_vars, tb_vars, mux_vars, stc_vars, mb_vars, cpe_vars, axi_vars>>

DFGInit ==
    /\ dfg_design \in {[i \in DfgIds |-> DfgObject(i, f[i])] :
                           f \in [DfgIds -> DfgShapeSeqs]}
    /\ dfg_base = [register_offset |-> 0, literal_offset |-> 0]
    /\ dfg_next_free = [register_offset |-> 0, literal_offset |-> 0]
    /\ dfg_object = DfgTop
    /\ dfg_pc = 0
    /\ dfg_stack = <<>>
    /\ dfg_status = "idle"
    /\ dfg_graph = [nodes |-> {}, edges |-> {}]
    /\ dfg_exit = [left |-> FALSE]
    /\ CCIdle
    /\ VMIdle
    /\ InfIdle
    /\ TBIdle
    /\ MuxIdle
    /\ STCIdle
    /\ MBIdle
    /\ CPEIdle
    /\ AXIIdle

DFGNext ==
    \/ DFGStart
    \/ DFGAssign
    \/ DFGExecFail
    \/ DFGExecEnter
    \/ DFGExecReturn
    \/ DFGExecPropagate
    \/ DFGDone

SpecDfg == DFGInit /\ [][DFGNext]_vars

\* C6 (as claimed): whenever compute() has left an Exec, by Ok or by Err,
\* base and object are what they were when it entered the Exec.
DFGContextRestored ==
    dfg_exit.left => dfg_exit.before = dfg_exit.after

(***************************************************************************)
(* The RHIF interpreter (rhif/vm.rs).                                      *)
(*                                                                         *)
(* A TypedBits is a Kind and a bit vector, held here as the number the     *)
(* bits spell.  A register file maps each register to an Option: <<>> is   *)
(* None, <<v>> is Some(v).  The opcode list of an Object is drawn opcode   *)
(* by opcode as execute_block reaches it, and its return slot when the     *)
(* block ends.                                                             *)
(***************************************************************************)
Bits(len) == [tag |-> "Bits", len |-> len]
TypedBits(kind, bits) == [kind |-> kind, bits |-> bits]
EMPTY == TypedBits(KEmpty, 0)
None == <<>>
Some(value) == <<value>>

Literal(ndx) == [kind |-> "Literal", ndx |-> ndx]
Empty == [kind |-> "Empty", ndx |-> 0]
Wild == [kind |-> "Wild", ndx |-> 0]

VmRegs == 0..(NumVmRegs - 1)
VmLits == 0..1
\* the values a caller hands to the outermost call
VmValues == {TypedBits(Bits(1), 1)} \cup {TypedBits(Bits(2), n) : n \in 0..2}

\* obj.literals of the Object called `name`
VmLiterals(name) ==
    IF name = "f1"
    THEN [l \in VmLits |-> TypedBits(Bits(2), 2 + l)]
    ELSE [l \in VmLits |-> TypedBits(Bits(2), l)]

\* the kernels of the design: main calls f1 and f2, f2 calls f1
VmF1 == [name |-> "f1",
         arguments |-> <<Register(0)>>,
         kind |-> [s \in {Register(0)} |-> Bits(2)],
         literals |-> VmLiterals("f1"),
         externals |-> <<>>]
VmF2 == [name |-> "f2",
         arguments |-> <<Register(0), Register(1)>>,
         kind |-> [s \in {Register(0), Register(1)} |->
                      IF s = Register(0) THEN Bits(2) ELSE Bits(1)],
         literals |-> VmLiterals("f2"),
         externals |-> <<VmF1>>]
\* the signatures main may have: its argument registers and their Kinds
VmSignatures == {<<Bits(2)>>, <<Bits(2), Bits(2)>>, <<Bits(2), Bits(1)>>}
VmMain(sig) ==
    [name |-> "main",
     arguments |-> [i \in 1..Len(sig) |-> Register(i - 1)],
     kind |-> [s \in {Register(i - 1) : i \in 1..Len(sig)} |->
                  sig[s.ndx + 1]],
     literals |-> VmLiterals("main"),
     externals |-> <<VmF1, VmF2>>]

VmOk(value) == [ok |-> TRUE, value |-> value]
VmFail(err) == [ok |-> FALSE, err |-> err]
ICE(what) == [ice |-> TRUE, what |-> what]

\* VMState::read, but with an unwritten register read as EMPTY
read_defaulting(state, slot) ==
    IF slot.kind = "Literal" THEN VmOk(state.obj.literals[slot.ndx])
    ELSE IF slot.kind = "Register"
    THEN IF state.reg_stack[slot.ndx] = None
         THEN VmOk(EMPTY)
         ELSE VmOk(state.reg_stack[slot.ndx][1])
    ELSE VmOk(EMPTY)

\* VMState::read
read(state, slot) ==
    IF slot.kind = "Literal" THEN VmOk(state.obj.literals[slot.ndx])
    ELSE IF slot.kind = "Register"
    THEN IF state.reg_stack[slot.ndx] = None
         THEN VmFail(ICE("Register is not initialized"))
         ELSE VmOk(state.reg_stack[slot.ndx][1])
    ELSE VmOk(EMPTY)

\* VMState::write, but with a literal destination silently accepted
write_ignoring_literal(state, slot, value) ==
    IF slot.kind = "Literal" THEN VmOk(state)
    ELSE IF slot.kind = "Register"
    THEN VmOk([state EXCEPT !.reg_stack[slot.ndx] = Some(value)])
    ELSE IF value.kind = KEmpty THEN VmOk(state)
    ELSE VmFail(ICE("Cannot write non-empty value to empty slot"))

\* VMState::write
write(state, slot, value) ==
    IF slot.kind = "Literal" THEN VmFail(ICE("Cannot write to literal"))
    ELSE IF slot.kind = "Register"
    THEN VmOk([state EXCEPT !.reg_stack[slot.ndx] = Some(value)])
    ELSE IF value.kind = KEmpty THEN VmOk(state)
    ELSE VmFail(ICE("Cannot write non-empty value to empty slot"))

\* TypedBits::any followed by as_bool
any(value) == value.bits # 0

\* execute_block, OpCode::Assign
exec_assign(state, op) ==
    LET rhs == read(state, op.rhs) IN
    IF ~rhs.ok THEN rhs ELSE write(state, op.lhs, rhs.value)

\* execute_block, OpCode::Select
exec_select(state, op) ==
    LET cond == read(state, op.cond)
        true_value == read(state, op.true_value)
        false_value == read(state, op.false_value)
    IN  IF ~cond.ok THEN cond
        ELSE IF ~true_value.ok THEN true_value
        ELSE IF ~false_value.ok THEN false_value
        ELSE IF any(cond.value)
             THEN write(state, op.lhs, true_value.value)
             ELSE write(state, op.lhs, false_value.value)

\* the arm OpCode::Case would take if the last matching entry won
RECURSIVE find_last_arm(_, _, _, _)
find_last_arm(state, discriminant, table, k) ==
    IF k < 1 THEN [tag |-> "none"]
    ELSE LET disc == table[k].key IN
         IF disc.kind = "Wild" THEN [tag |-> "found", ndx |-> k]
         ELSE LET key == read(state, disc) IN
              IF ~key.ok THEN [tag |-> "panic", err |-> key.err]
              ELSE IF discriminant = key.value
                   THEN [tag |-> "found", ndx |-> k]
                   ELSE find_last_arm(state, discriminant, table, k - 1)

find_arm_last_wins(state, discriminant, table, k) ==
    find_last_arm(state, discriminant, table, Len(table))

\* table.iter().find(..) of OpCode::Case, from entry k on; a key register
\* that was never written makes the unwrap panic
RECURSIVE find_arm(_, _, _, _)
find_arm(state, discriminant, table, k) ==
    IF k > Len(table) THEN [tag |-> "none"]
    ELSE LET disc == table[k].key IN
         IF disc.kind = "Wild" THEN [tag |-> "found", ndx |-> k]
         ELSE LET key == read(state, disc) IN
              IF ~key.ok THEN [tag |-> "panic", err |-> key.err]
              ELSE IF discriminant = key.value
                   THEN [tag |-> "found", ndx |-> k]
                   ELSE find_arm(state, discriminant, table, k + 1)

\* execute_block, OpCode::Case
exec_case(state, op) ==
    LET discriminant == read(state, op.discriminant) IN
    IF ~discriminant.ok THEN discriminant
    ELSE LET arm == find_arm(state, discriminant.value, op.table, 1) IN
         IF arm.tag = "panic" THEN [ok |-> FALSE, err |-> arm.err, panic |-> TRUE]
         ELSE IF arm.tag = "none" THEN VmFail(ICE("Case was not exhaustive"))
         ELSE LET value == read(state, op.table[arm.ndx].value) IN
              IF ~value.ok THEN value
              ELSE write(state, op.lhs, value.value)

\* the argument checks of execute, but with the Kinds never compared
check_count_only(obj, arguments) ==
    IF Len(obj.arguments) # Len(arguments)
    THEN [ice |-> FALSE, what |-> "expected arguments", fn_name |-> obj.name,
          expected |-> Len(obj.arguments), got |-> Len(arguments)]
    ELSE [ice |-> FALSE, what |-> "none"]

\* the loop of execute over the arguments, from argument ndx (0-based) on
RECURSIVE check_argument_kinds(_, _, _)
check_argument_kinds(obj, arguments, ndx) ==
    IF ndx >= Len(arguments) THEN [ice |-> FALSE, what |-> "none"]
    ELSE IF obj.arguments[ndx + 1] \notin DOMAIN obj.kind
    THEN [ice |-> TRUE, what |-> "argument type not found in object",
          ndx |-> ndx]
    ELSE IF obj.kind[obj.arguments[ndx + 1]] # arguments[ndx + 1].kind
    THEN [ice |-> FALSE, what |-> "argument expected", fn_name |-> obj.name,
          ndx |-> ndx, expected |-> obj.kind[obj.arguments[ndx + 1]],
          got |-> arguments[ndx + 1].kind]
    ELSE check_argument_kinds(obj, arguments, ndx + 1)

\* execute, up to the allocation of the registers: the error it bails with
check_arguments(obj, arguments) ==
    IF Len(obj.arguments) # Len(arguments)
    THEN [ice |-> FALSE, what |-> "expected arguments", fn_name |-> obj.name,
          expected |-> Len(obj.arguments), got |-> Len(arguments)]
    ELSE check_argument_kinds(obj, arguments, 0)

\* execute: vec![None; ..] with the arguments copied into their registers
load_arguments(obj, arguments) ==
    [r \in VmRegs |->
        IF \E i \in 1..Len(arguments) : obj.arguments[i] = Register(r)
        THEN Some(arguments[CHOOSE i \in 1..Len(arguments) :
                               obj.arguments[i] = Register(r)])
        ELSE None]

\* the value execute would return if it always returned register 0
return_value_first_register(obj, reg_stack, return_slot) ==
    IF reg_stack[0] = None THEN VmOk(EMPTY) ELSE VmOk(reg_stack[0][1])

\* execute: the match on obj.return_slot
return_value(obj, reg_stack, return_slot) ==
    IF return_slot.kind = "Empty" THEN VmOk(EMPTY)
    ELSE IF return_slot.kind = "Register"
    THEN IF return_slot.ndx \notin DOMAIN reg_stack
         THEN VmFail([ice |-> FALSE, what |-> "return slot not found"])
         ELSE IF reg_stack[return_slot.ndx] = None
         THEN VmFail(ICE("return slot is not initialized"))
         ELSE VmOk(reg_stack[return_slot.ndx][1])
    ELSE VmOk(obj.literals[return_slot.ndx])

\* args.iter().map(|x| state.read(*x)).collect::<Result<Vec<_>>>()
RECURSIVE read_all(_, _)
read_all(state, slots) ==
    IF slots = <<>> THEN VmOk(<<>>)
    ELSE LET first == read(state, Head(slots)) IN
         IF ~first.ok THEN first
         ELSE LET rest == read_all(state, Tail(slots)) IN
              IF ~rest.ok THEN rest
              ELSE VmOk(<<first.value>> \o rest.value)

\* the opcodes an Object's list is drawn from
VmRegSlots == {Register(r) : r \in VmRegs}
VmLitSlots == {Literal(l) : l \in VmLits}
VmLast == Register(NumVmRegs - 1)
VmAssignOps ==
    [code : {"Assign"},
     lhs : {Register(1), VmLast, Literal(0), Empty},
     rhs : {Register(0), VmLast, Literal(1), Empty}]
VmSelectOps ==
    [code : {"Select"},
     lhs : {VmLast, Literal(0)},
     cond : {Register(0), Register(1)} \cup VmLitSlots,
     true_value : {Register(0), Literal(1)},
     false_value : {Register(1)}]
VmEntry(key, value) == [key |-> key, value |-> value]
VmTables ==
    {<<VmEntry(Literal(0), Register(0)), VmEntry(Literal(1), VmLast),
       VmEntry(Wild, Literal(0))>>,
     <<VmEntry(Wild, Register(1)), VmEntry(Literal(1), VmLast)>>,
     <<VmEntry(Literal(1), Register(1)), VmEntry(Literal(1), Literal(0))>>,
     <<VmEntry(VmLast, Register(1)), VmEntry(Wild, Literal(1))>>}
VmCaseOps ==
    [code : {"Case"},
     lhs : {Register(0), VmLast, Literal(0)},
     discriminant : {Register(0), Register(1), Literal(1)},
     table : VmTables]
VmExecOps(obj) ==
    [code : {"Exec"},
     lhs : {VmLast, Literal(0)},
     id : DOMAIN obj.externals,
     args : {<<Register(0)>>, <<VmLast>>, <<Register(0), Register(1)>>}]
VmReturnSlots == VmRegSlots \cup {Literal(0), Empty}

VmState == [reg_stack |-> vm_regs, obj |-> vm_obj]
VmNoError == [ice |-> FALSE, what |-> "none"]

\* one opcode of execute_block done: its write lands, or its error ends
\* every call in progress
VmApply(op, result) ==
    /\ vm_hist' = [event |-> "op", op |-> op, pre |-> vm_regs,
                   obj |-> vm_obj.name]
    /\ IF result.ok
       THEN /\ vm_regs' = result.value.reg_stack
            /\ UNCHANGED <<vm_status, vm_error>>
       ELSE /\ vm_status' = IF "panic" \in DOMAIN result THEN "panic" ELSE "err"
            /\ vm_error' = result.err
            /\ UNCHANGED vm_regs
    /\ vm_pc' = vm_pc + 1
    /\ UNCHANGED <<vm_top, vm_args, vm_obj, vm_stack, vm_result>>
    /\ UNCHANGED <<cc_vars, dfg_vars, inf_vars, tb_vars, mux_vars, stc_vars, mb_vars, cpe_vars, axi_vars>>

\* execute(obj, arguments), the outermost call, up to execute_block
VMExecute ==
    /\ vm_status = "idle"
    /\ LET err == check_arguments(vm_top, vm_args) IN
       IF err.what = "none"
       THEN /\ vm_status' = "running"
            /\ vm_obj' = vm_top
            /\ vm_regs' = load_arguments(vm_top, vm_args)
            /\ UNCHANGED vm_error
       ELSE /\ vm_status' = "err"
            /\ vm_error' = err
            /\ UNCHANGED <<vm_obj, vm_regs>>
    /\ UNCHANGED <<vm_top, vm_args, vm_pc, vm_stack, vm_result, vm_hist>>
    /\ UNCHANGED <<cc_vars, dfg_vars, inf_vars, tb_vars, mux_vars, stc_vars, mb_vars, cpe_vars, axi_vars>>

VMAssign ==
    /\ vm_status = "running"
    /\ vm_pc < MaxVmOps
    /\ \E op \in VmAssignOps : VmApply(op, exec_assign(VmState, op))

VMSelect ==
    /\ vm_status = "running"
    /\ vm_pc < MaxVmOps
    /\ \E op \in VmSelectOps : VmApply(op, exec_select(VmState, op))

VMCase ==
    /\ vm_status = "running"
    /\ vm_pc < MaxVmOps
    /\ \E op \in VmCaseOps : VmApply(op, exec_case(VmState, op))

\* OpCode::Exec up to the callee's execute_block: the arguments are read,
\* the callee is looked up in the externals of the executing Object and
\* execute checks the arguments and allocates the callee's registers
VMExec ==
    /\ vm_status = "running"
    /\ vm_pc < MaxVmOps
    /\ \E op \in VmExecOps(vm_obj) :
        LET args == read_all(VmState, op.args) IN
        IF ~args.ok THEN VmApply(op, args)
        ELSE LET func == vm_obj.externals[op.id]
                 err == check_arguments(func, args.value)
             IN  IF err.what # "none" THEN VmApply(op, VmFail(err))
                 ELSE /\ vm_stack' = <<[obj |-> vm_obj, regs |-> vm_regs,
                                        op |-> op,
                                        entry |-> load_arguments(func, args.value)]>>
                                      \o vm_stack
                      /\ vm_obj' = func
                      /\ vm_regs' = load_arguments(func, args.value)
                      /\ vm_pc' = vm_pc + 1
                      /\ vm_hist' = [event |-> "call", op |-> op,
                                     pre |-> vm_regs, obj |-> vm_obj.name]
                      /\ UNCHANGED <<vm_top, vm_args, vm_status, vm_error,
                                     vm_result>>
                      /\ UNCHANGED <<cc_vars, dfg_vars, inf_vars, tb_vars, mux_vars, stc_vars, mb_vars, cpe_vars, axi_vars>>

\* the callee's execute_block has ended: execute returns the return slot
\* and OpCode::Exec writes it to its lhs in the caller's registers
VMExecReturn ==
    /\ vm_status = "running"
    /\ vm_stack # <<>>
    /\ \E return_slot \in VmReturnSlots :
        LET frame == Head(vm_stack)
            result == return_value(vm_obj, vm_regs, return_slot)
            written == IF result.ok
                       THEN write([reg_stack |-> frame.regs, obj |-> frame.obj],
                                  frame.op.lhs, result.value)
                       ELSE result
        IN  /\ vm_hist' = [event |-> "return", op |-> frame.op,
                           pre |-> frame.regs, obj |-> frame.obj.name,
                           caller |-> frame.obj, callee |-> vm_obj,
                           entry |-> frame.entry, final |-> vm_regs,
                           return_slot |-> return_slot]
            /\ IF written.ok
               THEN /\ vm_regs' = written.value.reg_stack
                    /\ vm_obj' = frame.obj
                    /\ vm_stack' = Tail(vm_stack)
                    /\ UNCHANGED <<vm_status, vm_error>>
               ELSE /\ vm_status' = "err"
                    /\ vm_error' = written.err
                    /\ UNCHANGED <<vm_regs, vm_obj, vm_stack>>
            /\ UNCHANGED <<vm_top, vm_args, vm_pc, vm_result>>
            /\ UNCHANGED <<cc_vars, dfg_vars, inf_vars, tb_vars, mux_vars, stc_vars, mb_vars, cpe_vars, axi_vars>>

\* the outermost execute_block has ended: execute returns the return slot
VMFinish ==
    /\ vm_status = "running"
    /\ vm_stack = <<>>
    /\ \E return_slot \in VmReturnSlots :
        LET result == return_value(vm_obj, vm_regs, return_slot) IN
        /\ IF result.ok
           THEN /\ vm_status' = "ok"
                /\ vm_result' = Some(result.value)
                /\ UNCHANGED vm_error
           ELSE /\ vm_status' = "err"
                /\ vm_error' = result.err
                /\ UNCHANGED vm_result
        /\ UNCHANGED <<vm_top, vm_args, vm_obj, vm_regs, vm_pc, vm_stack,
                       vm_hist>>
        /\ UNCHANGED <<cc_vars, dfg_vars, inf_vars, tb_vars, mux_vars, stc_vars, mb_vars, cpe_vars, axi_vars>>

VMInit ==
    /\ vm_top \in {VmMain(sig) : sig \in VmSignatures}
    /\ vm_args \in UNION {[1..n -> VmValues] : n \in 0..2}
    /\ vm_obj = <<>>
    /\ vm_regs = <<>>
    /\ vm_pc = 0
    /\ vm_stack = <<>>
    /\ vm_status = "idle"
    /\ vm_error = VmNoError
    /\ vm_result = <<>>
    /\ vm_hist = [event |-> "none"]
    /\ CCIdle
    /\ DFGIdle
    /\ InfIdle
    /\ TBIdle
    /\ MuxIdle
    /\ STCIdle
    /\ MBIdle
    /\ CPEIdle
    /\ AXIIdle

VMNext ==
    \/ VMExecute
    \/ VMAssign
    \/ VMSelect
    \/ VMCase
    \/ VMExec
    \/ VMExecReturn
    \/ VMFinish

SpecVM == VMInit /\ [][VMNext]_vars

(***************************************************************************)
(* Claims about the interpreter.                                           *)
(***************************************************************************)
\* what a slot held in a register file, for a slot that can be read there
VmSlotValue(regs, name, slot) ==
    IF slot.kind = "Register" THEN regs[slot.ndx][1]
    ELSE IF slot.kind = "Literal" THEN VmLiterals(name)[slot.ndx]
    ELSE EMPTY

VmUnwritten(regs, slot) == slot.kind = "Register" /\ regs[slot.ndx] = None

VmReturned == vm_hist.event = "return" /\ vm_status \in {"running", "ok"}

\* C7 (as claimed): an Exec runs the callee on the caller's own VM state:
\* the callee starts from the caller's registers, and what the callee left
\* in them is what the caller continues with, the destination of the Exec
\* holding the callee's return slot.
VMExecSameState ==
    VmReturned =>
        LET h == vm_hist
            result == VmSlotValue(h.final, h.callee.name, h.return_slot)
        IN  /\ h.callee = h.caller.externals[h.op.id]
            /\ h.entry = h.pre
            /\ \A r \in VmRegs :
                   vm_regs[r] = IF h.op.lhs = Register(r) THEN Some(result)
                                ELSE h.final[r]

\* C7 (amended): an Exec runs the callee found in the caller's externals on
\* a fresh register file that holds the argument values and nothing else;
\* when it returns, the caller's registers are what they were before the
\* Exec, but for the destination, which holds the callee's return slot.
VMExecFreshState ==
    VmReturned =>
        LET h == vm_hist
            result == VmSlotValue(h.final, h.callee.name, h.return_slot)
        IN  /\ h.callee = h.caller.externals[h.op.id]
            /\ ~VmUnwritten(h.final, h.return_slot)
            /\ \A r \in VmRegs :
                   h.entry[r] =
                       IF \E i \in 1..Len(h.op.args) :
                              h.callee.arguments[i] = Register(r)
                       THEN Some(VmSlotValue(h.pre, h.obj,
                                h.op.args[CHOOSE i \in 1..Len(h.op.args) :
                                    h.callee.arguments[i] = Register(r)]))
                       ELSE None
            /\ \A r \in VmRegs :
                   vm_regs[r] = IF h.op.lhs = Register(r) THEN Some(result)
                                ELSE h.pre[r]

\* an Exec has returned from a callee that wrote a register of its own,
\* to a caller holding something else in that register
VMExecWitness ==
    /\ VmReturned
    /\ vm_hist.final # vm_hist.entry
    /\ \E r \in VmRegs :
           /\ vm_hist.op.lhs # Register(r)
           /\ vm_hist.final[r] # None
           /\ vm_hist.final[r] # vm_regs[r]
           /\ vm_regs[r] # None

VmCountMismatch == Len(vm_top.arguments) # Len(vm_args)
VmKindMismatch ==
    /\ ~VmCountMismatch
    /\ \E i \in 1..Len(vm_args) :
           vm_top.kind[vm_top.arguments[i]] # vm_args[i].kind

\* C8: called with the wrong number of arguments, or with an argument whose
\* Kind is not the Kind of its argument slot, execute returns an error and
\* has executed no opcode; the Kind error names the function, the index of
\* an argument whose Kind differs, the Kind expected and the Kind received.
\* An Exec whose arguments the callee's execute refuses fails the same way,
\* naming the callee.
VMArgumentsChecked ==
    /\ (vm_status # "idle" /\ VmCountMismatch) =>
           /\ vm_status = "err"
           /\ vm_pc = 0
           /\ vm_hist.event = "none"
           /\ vm_error = [ice |-> FALSE, what |-> "expected arguments",
                          fn_name |-> vm_top.name,
                          expected |-> Len(vm_top.arguments),
                          got |-> Len(vm_args)]
    /\ (vm_status # "idle" /\ VmKindMismatch) =>
           /\ vm_status = "err"
           /\ vm_pc = 0
           /\ vm_hist.event = "none"
           /\ vm_error.what = "argument expected"
           /\ vm_error.fn_name = vm_top.name
           /\ vm_error.ndx + 1 \in 1..Len(vm_args)
           /\ vm_error.expected = vm_top.kind[vm_top.arguments[vm_error.ndx + 1]]
           /\ vm_error.got = vm_args[vm_error.ndx + 1].kind
           /\ vm_error.expected # vm_error.got
    /\ (/\ vm_hist.event = "op"
        /\ vm_hist.op.code = "Exec"
        /\ \A i \in 1..Len(vm_hist.op.args) :
               ~VmUnwritten(vm_hist.pre, vm_hist.op.args[i])) =>
           /\ vm_status = "err"
           /\ vm_regs = vm_hist.pre
           /\ vm_error.what \in {"expected arguments", "argument expected"}
           /\ vm_error.fn_name = vm_obj.externals[vm_hist.op.id].name

\* the second argument handed to execute has the wrong Kind
VMArgumentsWitness ==
    /\ vm_status = "err"
    /\ vm_error.what = "argument expected"
    /\ vm_error.ndx = 1
    /\ vm_args[1].kind = vm_top.kind[vm_top.arguments[1]]

\* a Case key that was written and differs from the discriminant
VmKeyDiffers(regs, name, entry, d) ==
    /\ entry.key.kind # "Wild"
    /\ ~VmUnwritten(regs, entry.key)
    /\ VmSlotValue(regs, name, entry.key) # d
\* a Case entry whose key is the wildcard or equals the discriminant
VmEntryMatches(regs, name, entry, d) ==
    \/ entry.key.kind = "Wild"
    \/ /\ ~VmUnwritten(regs, entry.key)
       /\ VmSlotValue(regs, name, entry.key) = d

\* the opcode of history record h reads a register nothing has written
VmReadsUnwritten(h) ==
    IF h.op.code = "Assign" THEN VmUnwritten(h.pre, h.op.rhs)
    ELSE IF h.op.code = "Select"
    THEN \E s \in {h.op.cond, h.op.true_value, h.op.false_value} :
             VmUnwritten(h.pre, s)
    ELSE IF h.op.code = "Exec"
    THEN \E i \in 1..Len(h.op.args) : VmUnwritten(h.pre, h.op.args[i])
    ELSE \/ VmUnwritten(h.pre, h.op.discriminant)
         \/ LET d == VmSlotValue(h.pre, h.obj, h.op.discriminant)
                t == h.op.table
            IN  \E i \in 1..Len(t) :
                    /\ \A j \in 1..(i - 1) : VmKeyDiffers(h.pre, h.obj, t[j], d)
                    /\ \/ VmUnwritten(h.pre, t[i].key)
                       \/ /\ VmEntryMatches(h.pre, h.obj, t[i], d)
                          /\ VmUnwritten(h.pre, t[i].value)

\* the opcode of history record h reaches its write, which is to a literal
VmWritesLiteral(h) ==
    /\ h.op.lhs.kind = "Literal"
    /\ ~VmReadsUnwritten(h)
    /\ h.op.code \in {"Assign", "Select", "Case"}
    /\ h.op.code = "Case" =>
           \E i \in 1..Len(h.op.table) :
               VmEntryMatches(h.pre, h.obj, h.op.table[i],
                              VmSlotValue(h.pre, h.obj, h.op.discriminant))

VMCaseFirstMatch ==
    (/\ vm_hist.event = "op"
     /\ vm_hist.op.code = "Case"
     /\ vm_status \in {"running", "ok"}) =>
        LET h == vm_hist
            t == h.op.table
            d == VmSlotValue(h.pre, h.obj, h.op.discriminant)
        IN  \E i \in 1..Len(t) :
                /\ VmEntryMatches(h.pre, h.obj, t[i], d)
                /\ \A j \in 1..(i - 1) : ~VmEntryMatches(h.pre, h.obj, t[j], d)
                /\ ~VmUnwritten(h.pre, t[i].value)
                /\ \A r \in VmRegs :
                       vm_regs[r] =
                           IF h.op.lhs = Register(r)
                           THEN Some(VmSlotValue(h.pre, h.obj, t[i].value))
                           ELSE h.pre[r]

\* match x { 0 => a, 1 => b, _ => c } with x = 1: the destination, which
\* held a's value, now holds b's, and a, b and c all differ
VMCaseWitness ==
    /\ vm_hist.event = "op"
    /\ vm_hist.op.code = "Case"
    /\ vm_status = "running"
    /\ vm_hist.obj = "main"
    /\ vm_hist.op.table = <<VmEntry(Literal(0), Register(0)),
                            VmEntry(Literal(1), VmLast),
                            VmEntry(Wild, Literal(0))>>
    /\ vm_hist.op.discriminant = Register(1)
    /\ vm_hist.pre[1] = Some(TypedBits(Bits(2), 1))
    /\ vm_hist.op.lhs = Register(0)
    /\ vm_hist.pre[0] = Some(TypedBits(Bits(2), 2))
    /\ vm_regs[0] = vm_hist.pre[NumVmRegs - 1]
    /\ vm_regs[0] = Some(TypedBits(Bits(2), 1))

(***************************************************************************)
(* TypedBits arithmetic and casts (types/typed_bits.rs, dyn_bit_manip.rs). *)
(* Here the bits of a TypedBits are a sequence of booleans, least          *)
(* significant bit first, as the Vec<bool> of the code.                    *)
(***************************************************************************)
Signed(len) == [tag |-> "Signed", len |-> len]

\* Kind::bits, Kind::is_composite, Kind::is_unsigned of the Kinds used here
kind_bits(kind) ==
    IF kind.tag \in {"Bits", "Signed"} THEN kind.len
    ELSE IF kind.tag = "Empty" THEN 0
    ELSE IF kind.tag = "Signal"
    THEN IF "base" \in DOMAIN kind THEN kind.base.len ELSE 1
    ELSE Len(kind.elements)
is_composite(kind) == kind.tag \notin {"Bits", "Signed", "Empty"}
is_unsigned(kind) == kind.tag = "Bits"

TbOk(value) == [ok |-> TRUE, value |-> value]
TbErr(error) == [ok |-> FALSE, error |-> error]

\* dyn_bit_manip::to_biguint
RECURSIVE to_biguint(_)
to_biguint(bits) ==
    IF bits = <<>> THEN 0
    ELSE (IF Head(bits) THEN 1 ELSE 0) + 2 * to_biguint(Tail(bits))

\* BigUint::bit
RECURSIVE bit(_, _)
bit(bi, pos) ==
    IF bi = 0 THEN FALSE
    ELSE IF pos = 0 THEN bi % 2 = 1
    ELSE bit(bi \div 2, pos - 1)

\* dyn_bit_manip::from_biguint
from_biguint(bi, len) == [pos \in 1..len |-> bit(bi, pos - 1)]

\* dyn_bit_manip::bit_not
bit_not(a) == [i \in 1..Len(a) |-> ~a[i]]

\* dyn_bit_manip::to_bigint
to_bigint(bits) ==
    IF bits = <<>> \/ ~bits[Len(bits)] THEN to_biguint(bits)
    ELSE 0 - (to_biguint(bit_not(bits)) + 1)

\* the scan of full_add from position k on, with the carry so far
RECURSIVE full_add_scan(_, _, _, _)
full_add_scan(a, b, k, carry) ==
    IF k > Len(a) \/ k > Len(b) THEN <<>>
    ELSE LET sum == (a[k] # b[k]) # carry
             new_carry == (a[k] /\ b[k]) \/ (a[k] /\ carry) \/ (b[k] /\ carry)
         IN  <<sum>> \o full_add_scan(a, b, k + 1, new_carry)

\* full_add, but with the carry dropped at every position
full_add_carryless(a, b) ==
    [i \in 1..(IF Len(a) < Len(b) THEN Len(a) ELSE Len(b)) |-> a[i] # b[i]]

\* dyn_bit_manip::full_add
full_add(a, b) == full_add_scan(a, b, 1, FALSE)

\* impl Add for TypedBits
add(self, rhs) ==
    IF self.kind # rhs.kind
    THEN TbErr("BinaryOperationRequiresSameType")
    ELSE IF is_composite(self.kind)
    THEN TbErr("CannotApplyBinaryOperationToComposite")
    ELSE TbOk(TypedBits(self.kind, full_add(self.bits, rhs.bits)))

\* dyn_bit_manip::add_one
RECURSIVE add_one_scan(_, _, _)
add_one_scan(a, k, carry) ==
    IF k > Len(a) THEN <<>>
    ELSE <<a[k] # carry>> \o add_one_scan(a, k + 1, a[k] /\ carry)
add_one(a) == add_one_scan(a, 1, TRUE)

\* dyn_bit_manip::bit_neg, full_sub
bit_neg(a) == add_one(bit_not(a))
full_sub(a, b) == full_add(a, bit_neg(b))

\* the length of a.iter().zip(b.iter())
zip_len(a, b) == IF Len(a) < Len(b) THEN Len(a) ELSE Len(b)

\* dyn_bit_manip::bits_xor, bits_and, bits_or
bits_xor(a, b) == [i \in 1..zip_len(a, b) |-> a[i] # b[i]]
bits_and(a, b) == [i \in 1..zip_len(a, b) |-> a[i] /\ b[i]]
bits_or(a, b) == [i \in 1..zip_len(a, b) |-> a[i] \/ b[i]]

\* impl Sub for TypedBits
sub(self, rhs) ==
    IF self.kind # rhs.kind
    THEN TbErr("BinaryOperationRequiresSameType")
    ELSE TbOk(TypedBits(self.kind, full_sub(self.bits, rhs.bits)))

\* impl BitXor for TypedBits
bitxor(self, rhs) ==
    IF self.kind # rhs.kind
    THEN TbErr("BinaryOperationRequiresSameType")
    ELSE IF is_composite(self.kind)
    THEN TbErr("CannotApplyBinaryOperationToComposite")
    ELSE TbOk(TypedBits(self.kind, bits_xor(self.bits, rhs.bits)))

\* impl BitAnd for TypedBits
bitand(self, rhs) ==
    IF self.kind # rhs.kind
    THEN TbErr("BinaryOperationRequiresSameType")
    ELSE IF is_composite(self.kind)
    THEN TbErr("CannotApplyBinaryOperationToComposite")
    ELSE TbOk(TypedBits(self.kind, bits_and(self.bits, rhs.bits)))

\* impl BitOr for TypedBits
bitor(self, rhs) ==
    IF self.kind # rhs.kind
    THEN TbErr("BinaryOperationRequiresSameType")
    ELSE IF is_composite(self.kind)
    THEN TbErr("CannotApplyBinaryOperationToComposite")
    ELSE TbOk(TypedBits(self.kind, bits_or(self.bits, rhs.bits)))

\* the shift of a u128 held as the set of the positions of its set bits
shr(x, k) == {i - k : i \in {j \in x : j >= k}}

\* x ^ y of two such values
xor_bits(x, y) == (x \ y) \cup (y \ x)

\* x ^= x >> k
xor_shr(x, k) == xor_bits(x, shr(x, k))

\* rhdl_std::xor
xor(x) ==
    0 \in xor_shr(xor_shr(xor_shr(xor_shr(xor_shr(xor_shr(x, 1), 2), 4), 8),
                          16), 32)

\* TypedBits::xor: the fold of ^ over the bits
RECURSIVE fold_xor(_)
fold_xor(bits) ==
    IF bits = <<>> THEN FALSE ELSE fold_xor(Tail(bits)) # Head(bits)

\* bits.into_iter().chain(repeat(fill)).take(len)
extend(bits, fill, len) ==
    [i \in 1..len |-> IF i <= Len(bits) THEN bits[i] ELSE fill]

\* bits.last().cloned().unwrap_or_default()
last_or_default(bits) == IF bits = <<>> THEN FALSE ELSE bits[Len(bits)]

\* TypedBits::unsigned_cast
unsigned_cast(self, bits) ==
    IF bits > kind_bits(self.kind)
    THEN TbOk(TypedBits(Bits(bits), extend(self.bits, FALSE, bits)))
    ELSE LET base == SubSeq(self.bits, 1, bits)
             rest == SubSeq(self.bits, bits + 1, Len(self.bits))
         IN  IF \E i \in 1..Len(rest) : rest[i]
             THEN TbErr("UnsignedCastWithWidthFailed")
             ELSE TbOk(TypedBits(Bits(bits), base))

\* TypedBits::signed_cast, but widening with zeros
signed_cast_zero_extending(self, bits) ==
    IF bits > kind_bits(self.kind)
    THEN TbOk(TypedBits(Signed(bits), extend(self.bits, FALSE, bits)))
    ELSE LET base == SubSeq(self.bits, 1, bits)
             rest == SubSeq(self.bits, bits + 1, Len(self.bits))
             new_sign_bit == last_or_default(base)
         IN  IF \E i \in 1..Len(rest) : rest[i] # new_sign_bit
             THEN TbErr("SignedCastWithWidthFailed")
             ELSE TbOk(TypedBits(Signed(bits), base))

\* TypedBits::signed_cast
signed_cast(self, bits) ==
    IF bits > kind_bits(self.kind)
    THEN LET sign_bit == last_or_default(self.bits) IN
         TbOk(TypedBits(Signed(bits), extend(self.bits, sign_bit, bits)))
    ELSE LET base == SubSeq(self.bits, 1, bits)
             rest == SubSeq(self.bits, bits + 1, Len(self.bits))
             new_sign_bit == last_or_default(base)
         IN  IF \E i \in 1..Len(rest) : rest[i] # new_sign_bit
             THEN TbErr("SignedCastWithWidthFailed")
             ELSE TbOk(TypedBits(Signed(bits), base))

\* the cast a caller picks: self.signed_cast(bits) or self.unsigned_cast(bits)
cast(self, signed, bits) ==
    IF signed THEN signed_cast(self, bits) ELSE unsigned_cast(self, bits)

\* every bit vector of a width
BitVectors(len) == [1..len -> BOOLEAN]
\* the Bits and Signed values of the widths lo..hi
TbValues(lo, hi) ==
    UNION {{TypedBits(Bits(n), b) : b \in BitVectors(n)}
           \cup {TypedBits(Signed(n), b) : b \in BitVectors(n)} : n \in lo..hi}
\* a tuple of two bits, a composite value
TbTuples == {TypedBits(KTuple(<<Bits(1), Bits(1)>>), b) : b \in BitVectors(2)}
\* the right operands tried with a left operand: all of its own Kind, and
\* the narrow values of every other Kind
TbAddends(lhs) ==
    {TypedBits(lhs.kind, b) : b \in BitVectors(Len(lhs.bits))}
        \cup TbValues(1, 2) \cup TbTuples

\* a + b of two TypedBits
TBAdd ==
    /\ tb_call.op = "none"
    /\ \E lhs \in {v \in TbValues(1, MaxBits) :
                       v.kind.tag = "Bits" \/ v.kind.len <= SignedBits}
                  \cup TbTuples :
           \E rhs \in TbAddends(lhs) :
               /\ tb_call' = [op |-> "add", lhs |-> lhs, rhs |-> rhs]
               /\ tb_result' = add(lhs, rhs)
    /\ UNCHANGED <<cc_vars, dfg_vars, vm_vars, inf_vars, mux_vars, stc_vars, mb_vars, cpe_vars, axi_vars>>

\* a - b, a ^ b, a & b, a | b of two TypedBits
TBBinary ==
    /\ tb_call.op = "none"
    /\ \E lhs \in TbValues(1, BinaryBits) \cup TbTuples :
           \E rhs \in TbAddends(lhs) :
               \E op \in {"sub", "bitxor", "bitand", "bitor"} :
                   /\ tb_call' = [op |-> op, lhs |-> lhs, rhs |-> rhs]
                   /\ tb_result' = IF op = "sub" THEN sub(lhs, rhs)
                                   ELSE IF op = "bitxor" THEN bitxor(lhs, rhs)
                                   ELSE IF op = "bitand" THEN bitand(lhs, rhs)
                                   ELSE bitor(lhs, rhs)
    /\ UNCHANGED <<cc_vars, dfg_vars, vm_vars, inf_vars, mux_vars, stc_vars, mb_vars, cpe_vars, axi_vars>>

\* the values of Bits<N>, N up to 128, that xor is applied to: those with
\* at most XorOnes bits set, at the ends of the bytes the shifts fold
XorWidths == {1, 5, 32, 64, 65, 128}
XorPositions == {0, 1, 3, 4, 31, 32, 63, 64, 65, 127}
XorValues(n) ==
    {x \in SUBSET {i \in XorPositions : i < n} : Cardinality(x) <= XorOnes}
        \cup {0..(n - 1)}

\* rhdl_std::xor(x) of a Bits<N>
TBXor ==
    /\ tb_call.op = "none"
    /\ \E n \in XorWidths :
           \E x \in XorValues(n) :
               /\ tb_call' = [op |-> "xor", n |-> n, x |-> x]
               /\ tb_result' = xor(x)
    /\ UNCHANGED <<cc_vars, dfg_vars, vm_vars, inf_vars, mux_vars, stc_vars, mb_vars, cpe_vars, axi_vars>>

\* value.signed_cast(bits) or value.unsigned_cast(bits)
TBCast ==
    /\ tb_call.op = "none"
    /\ \E value \in TbValues(0, CastBits), signed \in BOOLEAN,
          bits \in 0..(CastBits + 1) :
           /\ tb_call' = [op |-> "cast", value |-> value, signed |-> signed,
                          bits |-> bits]
           /\ tb_result' = cast(value, signed, bits)
    /\ UNCHANGED <<cc_vars, dfg_vars, vm_vars, inf_vars, mux_vars, stc_vars, mb_vars, cpe_vars, axi_vars>>

\* the result of a cast is cast back to the width the value had
TBCastBack ==
    /\ tb_call.op = "cast"
    /\ tb_result.ok
    /\ tb_call' = [op |-> "cast_back", value |-> tb_call.value,
                   signed |-> tb_call.signed, bits |-> tb_call.bits,
                   wide |-> tb_result.value]
    /\ tb_result' = cast(tb_result.value, tb_call.signed,
                         kind_bits(tb_call.value.kind))
    /\ UNCHANGED <<cc_vars, dfg_vars, vm_vars, inf_vars, mux_vars, stc_vars, mb_vars, cpe_vars, axi_vars>>

\* ExprLit: Int(x) is the text of the literal, its radix prefix and digits
LitInt(prefix, digits) == [tag |-> "Int", prefix |-> prefix, digits |-> digits]
LitBool(b) == [tag |-> "Bool", value |-> b]
LitTypedBits(tb) == [tag |-> "TypedBits", value |-> tb]

\* the radix a prefix selects: strip_prefix("0b"), ("0o"), ("0x"), or parse
radix_of(prefix) ==
    IF prefix = "0b" THEN 2
    ELSE IF prefix = "0o" THEN 8
    ELSE IF prefix = "0x" THEN 16
    ELSE 10

\* u128::from_str_radix / i128::from_str_radix on the digits read so far
RECURSIVE from_str_radix(_, _, _, _)
from_str_radix(digits, radix, k, acc) ==
    IF k > Len(digits) THEN TbOk(acc)
    ELSE IF digits[k] >= radix THEN TbErr("ParseIntError")
    ELSE from_str_radix(digits, radix, k + 1, acc * radix + digits[k])

\* the number a literal spells
parse_int(lit) ==
    IF lit.digits = <<>> THEN TbErr("ParseIntError")
    ELSE from_str_radix(lit.digits, radix_of(lit.prefix), 1, 0)

\* the bits of a u128 and of an i128
IntBits == 128

\* <u128 as Digital>::typed_bits and <i128 as Digital>::typed_bits of a
\* number that is not negative
u128_typed_bits(x) == TypedBits(Bits(IntBits), from_biguint(x, IntBits))
i128_typed_bits(x) == TypedBits(Signed(IntBits), from_biguint(x, IntBits))

\* cast_literal_to_inferred_type, but keeping the low bits of the literal
cast_literal_truncating(t, kind) ==
    IF t.tag = "Int"
    THEN LET x == parse_int(t) IN
         IF ~x.ok THEN x
         ELSE TbOk(TypedBits(kind, from_biguint(x.value, kind_bits(kind))))
    ELSE TbOk(t.value)

\* MirTypeInference::cast_literal_to_inferred_type, the Kind being
\* ctx.into_kind(ty)
cast_literal_to_inferred_type(t, kind) ==
    IF t.tag = "TypedBits"
    THEN IF t.value.kind # kind
         THEN TbErr("InferredLiteralTypeMismatch")
         ELSE TbOk(t.value)
    ELSE IF t.tag = "Int"
    THEN LET x == parse_int(t) IN
         IF ~x.ok THEN x
         ELSE IF is_unsigned(kind)
         THEN unsigned_cast(u128_typed_bits(x.value), kind_bits(kind))
         ELSE signed_cast(i128_typed_bits(x.value), kind_bits(kind))
    ELSE TbOk(TypedBits(Bits(1), <<t.value>>))

LitDigitSeqs == UNION {[1..n -> 0..15] : n \in 1..LitDigits}
LitKinds == {Bits(n) : n \in 1..LitBits} \cup {Signed(n) : n \in 1..LitBits}
Literals ==
    {LitInt(p, d) : p \in {"", "0b", "0o", "0x"}, d \in LitDigitSeqs}
        \cup {LitBool(b) : b \in BOOLEAN}
        \cup {LitTypedBits(tb) : tb \in TbValues(1, 2)}

\* a literal is cast into the Kind inference gave its slot
TBLiteral ==
    /\ tb_call.op = "none"
    /\ \E t \in Literals, kind \in LitKinds :
           /\ tb_call' = [op |-> "literal", lit |-> t, kind |-> kind]
           /\ tb_result' = cast_literal_to_inferred_type(t, kind)
    /\ UNCHANGED <<cc_vars, dfg_vars, vm_vars, inf_vars, mux_vars, stc_vars, mb_vars, cpe_vars, axi_vars>>

TBInit ==
    /\ tb_call = [op |-> "none"]
    /\ tb_result = <<>>
    /\ CCIdle
    /\ DFGIdle
    /\ VMIdle
    /\ InfIdle
    /\ MuxIdle
    /\ STCIdle
    /\ MBIdle
    /\ CPEIdle
    /\ AXIIdle

TBNext == TBAdd \/ TBBinary \/ TBXor \/ TBCast \/ TBCastBack \/ TBLiteral

SpecBits == TBInit /\ [][TBNext]_vars

(***************************************************************************)
(* Claims about TypedBits.                                                 *)
(***************************************************************************)
\* 2^n
RECURSIVE Pow2(_)
Pow2(n) == IF n = 0 THEN 1 ELSE 2 * Pow2(n - 1)

\* C26 (as claimed): xor(x) of a Bits<N>, N up to 128, is true exactly when
\* an odd number of the bits of x are set.
TBXorIsParity ==
    tb_call.op = "xor" => (tb_result <=> Cardinality(tb_call.x) % 2 = 1)

\* C30 (as claimed): a - b, a ^ b, a & b and a | b of two TypedBits are an
\* error when the Kinds of a and b differ or are composite.
TBBinaryRejectsMismatchAndComposite ==
    (/\ tb_call.op \in {"add", "sub", "bitxor", "bitand", "bitor"}
     /\ \/ tb_call.lhs.kind # tb_call.rhs.kind
        \/ is_composite(tb_call.lhs.kind)
        \/ is_composite(tb_call.rhs.kind)) => ~tb_result.ok

\* C11: adding two values of Kind Bits(N) yields a value of Kind Bits(N)
\* whose bits spell (a + b) mod 2^N; 200 + 100 in 8 bits is 44.
TBAddWraps ==
    (tb_call.op = "add" /\ tb_call.lhs.kind.tag = "Bits"
        /\ tb_call.rhs.kind = tb_call.lhs.kind) =>
        LET n == tb_call.lhs.kind.len
            a == to_biguint(tb_call.lhs.bits)
            b == to_biguint(tb_call.rhs.bits)
        IN  /\ tb_result.ok
            /\ tb_result.value.kind = Bits(n)
            /\ Len(tb_result.value.bits) = n
            /\ to_biguint(tb_result.value.bits) = (a + b) % Pow2(n)
            /\ (n = 8 /\ a = 200 /\ b = 100) =>
                   to_biguint(tb_result.value.bits) = 44

\* 200 + 100 has been added in 8 bits, the sum passing 2^8
TBAddWitness ==
    /\ tb_call.op = "add"
    /\ tb_call.lhs = TypedBits(Bits(8), from_biguint(200, 8))
    /\ tb_call.rhs = TypedBits(Bits(8), from_biguint(100, 8))
    /\ tb_result.ok
    /\ to_biguint(tb_result.value.bits) = 44

\* the value was cast with the cast of its own signedness to a width that
\* is not below its own
TbWidened ==
    /\ tb_call.signed = (tb_call.value.kind.tag = "Signed")
    /\ tb_call.bits >= kind_bits(tb_call.value.kind)

\* C14: a value of width W cast to a width N >= W with the cast of its own
\* signedness, and then cast back to W, is the value again: both casts
\* succeed and the bits are the original ones.
TBCastRoundTrip ==
    /\ (tb_call.op = "cast" /\ TbWidened) => tb_result.ok
    /\ (tb_call.op = "cast_back" /\ TbWidened) =>
           /\ tb_result.ok
           /\ tb_result.value.bits = tb_call.value.bits
           /\ tb_result.value.kind = tb_call.value.kind

\* a negative signed value has been widened by two bits and cast back
TBCastWitness ==
    /\ tb_call.op = "cast_back"
    /\ TbWidened
    /\ tb_call.value.kind = Signed(2)
    /\ tb_call.value.bits = <<FALSE, TRUE>>
    /\ tb_call.bits = 4
    /\ tb_call.wide.bits = <<FALSE, TRUE, TRUE, TRUE>>
    /\ tb_result.ok

\* the literal's value fits the sign and width of a Kind
LitFits(value, kind) ==
    IF kind.tag = "Bits" THEN value < Pow2(kind.len)
    ELSE value < Pow2(kind.len - 1)

\* the number the bits of a value spell under its Kind
TbNumber(tb) ==
    IF tb.kind.tag = "Signed" THEN to_bigint(tb.bits) ELSE to_biguint(tb.bits)

\* C18: the cast of an integer literal into its inferred Kind succeeds
\* exactly when the literal's value fits the sign and width of the Kind,
\* and then yields a value of that Kind whose bits spell the literal's
\* value; a literal that does not fit is an error, never a truncation.
TBLiteralExact ==
    (tb_call.op = "literal" /\ tb_call.lit.tag = "Int") =>
        LET x == parse_int(tb_call.lit) IN
        IF ~x.ok THEN ~tb_result.ok
        ELSE /\ tb_result.ok <=> LitFits(x.value, tb_call.kind)
             /\ tb_result.ok =>
                    /\ tb_result.value.kind = tb_call.kind
                    /\ Len(tb_result.value.bits) = tb_call.kind.len
                    /\ TbNumber(tb_result.value) = x.value

\* 0xf has been cast into a signed Kind of four bits, which ends at 7
TBLiteralWitness ==
    /\ tb_call.op = "literal"
    /\ tb_call.kind = Signed(4)
    /\ tb_call.lit = LitInt("0x", <<15>>)
    /\ ~tb_result.ok
    /\ tb_result.error = "SignedCastWithWidthFailed"

(***************************************************************************)
(* Type and clock inference (compiler/mir/infer.rs).                       *)
(*                                                                         *)
(* The unification engine (compiler/mir/ty.rs) is modelled from section    *)
(* 4.2 of the specification: a type is a variable, a constant (a length, a *)
(* sign flag, a clock color, the empty type) or an application: the bits   *)
(* of a sign flag and a length, or signal(data, clock).  Two applications  *)
(* unify when their constructors match and their arguments unify.  A Slot  *)
(* is a number: Literal(k) lies below every Register(r), and Empty above   *)
(* them, as the variants of Slot are ordered.  The type variable made for  *)
(* a slot carries the number of the slot; the variables made by ty_var     *)
(* elsewhere are numbered from FreshBase in the order they are made.       *)
(***************************************************************************)
TyVar(id) == [tag |-> "Var", id |-> id]
TyClock(color) == [tag |-> "Clock", color |-> color]
TySignal(data, clock) == [tag |-> "Signal", data |-> data, clock |-> clock]
Unbound == [tag |-> "Unbound"]

\* UnifyContext::ty_const_len, ty_sign_flag, ty_empty
ty_const_len(len) == [tag |-> "Length", len |-> len]
ty_sign_flag(sign_flag) == [tag |-> "SignFlag", sign_flag |-> sign_flag]
ty_empty == [tag |-> "Empty"]

\* the bits of a sign flag and a length; UnifyContext::ty_bits, ty_signed,
\* ty_bool
ty_with_sign_and_len(sign_flag, len) ==
    [tag |-> "Bits", sign_flag |-> sign_flag, len |-> len]
ty_bits(len) == ty_with_sign_and_len(ty_sign_flag("Unsigned"), len)
ty_signed(len) == ty_with_sign_and_len(ty_sign_flag("Signed"), len)
ty_bool == ty_bits(ty_const_len(1))

\* registers of a Mir: its arguments r0, r1, r2 and one result per opcode;
\* its literals; Slot::Empty
MirArgs == {0, 1, 2}
MirRegs == 0..(2 + MaxMirOps)
MirLiteral(k) == k - MaxMirLits
MirLits == {MirLiteral(k) : k \in 0..(MaxMirLits - 1)}
MirEmpty == 3 + MaxMirOps
MirSlots == MirLits \cup MirRegs
\* the type variables: one per slot, and those ty_var makes for the sign
\* flag and the length of a literal, for the sign flag of a defaulted
\* literal and for the length of a cast, in each of the two process_ops
FreshBase == MirEmpty + 1
MaxFresh == 3 * MaxMirLits + 2 * MaxMirOps
TypeVars == MirSlots \cup (FreshBase..(FreshBase + MaxFresh - 1))
\* the iteration cap infer() hands to try_type_ops
IterationCount == 5
\* the length the literals without a length are given
DefaultLen == 32

\* UnifyContext::apply
RECURSIVE apply(_, _)
apply(ctx, ty) ==
    IF ty.tag = "Var"
    THEN IF ctx[ty.id] = Unbound THEN ty ELSE apply(ctx, ctx[ty.id])
    ELSE IF ty.tag = "Signal"
    THEN TySignal(apply(ctx, ty.data), apply(ctx, ty.clock))
    ELSE IF ty.tag = "Bits"
    THEN ty_with_sign_and_len(apply(ctx, ty.sign_flag), apply(ctx, ty.len))
    ELSE ty

\* the second step of unifying two applications, after the first
RECURSIVE unify_next(_, _, _)

\* UnifyContext::unify on two types that are applied already
RECURSIVE unify_applied(_, _, _)
unify_applied(ctx, x, y) ==
    IF x = y THEN [ok |-> TRUE, ctx |-> ctx]
    ELSE IF x.tag = "Var" THEN [ok |-> TRUE, ctx |-> [ctx EXCEPT ![x.id] = y]]
    ELSE IF y.tag = "Var" THEN [ok |-> TRUE, ctx |-> [ctx EXCEPT ![y.id] = x]]
    ELSE IF x.tag = "Signal" /\ y.tag = "Signal"
    THEN unify_next(unify_applied(ctx, x.data, y.data), x.clock, y.clock)
    ELSE IF x.tag = "Bits" /\ y.tag = "Bits"
    THEN unify_next(unify_applied(ctx, x.sign_flag, y.sign_flag), x.len, y.len)
    ELSE [ok |-> FALSE, ctx |-> ctx]

unify_next(first, x, y) ==
    IF ~first.ok THEN first
    ELSE unify_applied(first.ctx, apply(first.ctx, x), apply(first.ctx, y))

\* UnifyContext::unify: the bindings after unifying, or the failure
ctx_unify(ctx, lhs, rhs) ==
    unify_applied(ctx, apply(ctx, lhs), apply(ctx, rhs))

\* UnifyContext::from_kind; the data of a Signal of the model is a bool
from_kind(kind) ==
    IF kind.tag = "Signal" THEN TySignal(ty_bool, TyClock(kind.color))
    ELSE IF kind.tag = "Signed" THEN ty_signed(ty_const_len(kind.len))
    ELSE IF kind.tag = "Empty" THEN ty_empty
    ELSE ty_bits(ty_const_len(kind.len))

\* the Kind of a type that is applied already and is no signal
data_kind(t) ==
    IF t.tag = "Bits" /\ t.sign_flag.tag = "SignFlag" /\ t.len.tag = "Length"
    THEN IF t.sign_flag.sign_flag = "Signed" THEN Some(Signed(t.len.len))
         ELSE Some(Bits(t.len.len))
    ELSE IF t.tag = "Empty" THEN Some(KEmpty)
    ELSE None

\* UnifyContext::into_kind: the Kind of a type without variables; the
\* Signal of a bool is KSignal, that of other data carries their Kind
into_kind(ctx, ty) ==
    LET t == apply(ctx, ty) IN
    IF t.tag = "Signal"
    THEN LET data == data_kind(t.data) IN
         IF data = None \/ t.clock.tag # "Clock" THEN None
         ELSE IF data[1] = Bits(1) THEN Some(KSignal(t.clock.color))
         ELSE Some([tag |-> "Signal", color |-> t.clock.color, base |-> data[1]])
    ELSE data_kind(t)

\* UnifyContext::is_unsized_integer: bits whose length is a variable
is_unsized_integer(ctx, ty) ==
    LET t == apply(ctx, ty) IN
    t.tag = "Bits" /\ t.len.tag = "Var"

\* UnifyContext::project_sign_flag
project_sign_flag(ctx, ty) ==
    LET t == apply(ctx, ty) IN
    IF t.tag = "Bits" THEN Some(t.sign_flag) ELSE None

\* UnifyContext::is_unresolved
is_unresolved(ctx, ty) == apply(ctx, ty).tag = "Var"

\* UnifyContext::is_signal
is_signal(ctx, ty) == apply(ctx, ty).tag = "Signal"

\* UnifyContext::project_signal_clock
project_signal_clock(ctx, ty) ==
    LET t == apply(ctx, ty) IN
    IF t.tag = "Signal" THEN Some(t.clock) ELSE None

\* UnifyContext::project_signal_value
project_signal_value(ctx, ty) ==
    LET t == apply(ctx, ty) IN
    IF t.tag = "Signal" THEN Some(t.data)
    ELSE IF t.tag = "Var" THEN None
    ELSE Some(t)

\* UnifyContext::modification_state
modification_state(ctx) == ctx

\* the state of a MirTypeInference and the outcome of one of its methods
\* (var counts the type variables ty_var has made)
InfState(ctx, slot_map, type_ops, var) ==
    [ctx |-> ctx, slot_map |-> slot_map, type_ops |-> type_ops, var |-> var]
InfOk(st) == [ok |-> TRUE, st |-> st]
InfFail(st, err) == [ok |-> FALSE, st |-> st, err |-> err]

\* MirTypeInference::unify, but with every pair of types accepted
unify_accepting(st, id, lhs, rhs) ==
    LET r == ctx_unify(st.ctx, lhs, rhs) IN
    IF r.ok THEN InfOk([st EXCEPT !.ctx = r.ctx]) ELSE InfOk(st)

\* MirTypeInference::unify, r being the outcome of ctx.unify(lhs, rhs)
unify_outcome(st, id, lhs, rhs, r) ==
    IF r.ok THEN InfOk([st EXCEPT !.ctx = r.ctx])
    ELSE InfFail(st, [kind |-> "RHDLTypeCheckError",
                      lhs_type |-> apply(st.ctx, lhs),
                      rhs_type |-> apply(st.ctx, rhs),
                      cause_description |-> "Because of this expression",
                      cause_span |-> id])

\* MirTypeInference::unify
unify(st, id, lhs, rhs) ==
    unify_outcome(st, id, lhs, rhs, ctx_unify(st.ctx, lhs, rhs))

\* MirTypeInference::slot_ty: the TypeId of a slot, and the state with the
\* slot entered in slot_map (with_slots_unchanged: but with no slot entered)
slot_ty(st, slot) ==
    IF slot = MirEmpty THEN ty_empty
    ELSE IF slot \in DOMAIN st.slot_map THEN st.slot_map[slot]
    ELSE TyVar(slot)
with_slots_unchanged(st, slots) == st
with_slots(st, slots) ==
    [st EXCEPT !.slot_map =
        [s \in DOMAIN st.slot_map \cup (slots \ {MirEmpty}) |-> slot_ty(st, s)]]

\* UnifyContext::ty_var: the variable made next, and the state after it
ty_var(st) == TyVar(FreshBase + st.var)
after_ty_var(st) == [st EXCEPT !.var = @ + 1]

\* MirTypeInference::unresolved_slot_typeid, but giving the first slot of
\* slot_map whether its type has a Kind or not
first_slot_typeid(st) ==
    IF DOMAIN st.slot_map = {} THEN None
    ELSE Some(CHOOSE s \in DOMAIN st.slot_map :
                  \A t \in DOMAIN st.slot_map : s <= t)

\* MirTypeInference::unresolved_slot_typeid: the first slot of slot_map
\* whose type has no Kind; its TypeId carries the node of the slot
unresolved_slot_typeid(st) ==
    LET unresolved == {s \in DOMAIN st.slot_map :
                          into_kind(st.ctx, st.slot_map[s]) = None}
    IN  IF unresolved = {} THEN None
        ELSE Some(CHOOSE s \in unresolved : \A t \in unresolved : s <= t)

\* MirTypeInference::all_slots_resolved
all_slots_resolved(st) == unresolved_slot_typeid(st) = None

\* unify when the outcome so far is Ok and the condition holds
unify_if(r, cond, id, lhs, rhs) ==
    IF ~r.ok THEN r
    ELSE IF cond THEN unify(r.st, id, lhs, rhs)
    ELSE r

\* if let (Some(a), Some(b)) = (project_signal_value(x), project_signal_value(y))
\* { unify(a, b)? }
unify_values(r, id, x, y) ==
    IF ~r.ok THEN r
    ELSE LET a == project_signal_value(r.st.ctx, x)
             b == project_signal_value(r.st.ctx, y)
         IN  IF a # None /\ b # None THEN unify(r.st, id, a[1], b[1]) ELSE r

\* the clocks enforce_clocks collects: those of the types that are signals
RECURSIVE signal_clocks(_, _)
signal_clocks(ctx, tys) ==
    IF tys = <<>> THEN <<>>
    ELSE LET clock == project_signal_clock(ctx, Head(tys)) IN
         (IF clock = None THEN <<>> ELSE <<clock[1]>>)
             \o signal_clocks(ctx, Tail(tys))

\* for (first, second) in clocks.iter().zip(clocks.iter().skip(1))
RECURSIVE unify_adjacent(_, _, _, _)
unify_adjacent(r, id, clocks, k) ==
    IF ~r.ok \/ k >= Len(clocks) THEN r
    ELSE unify_adjacent(unify(r.st, id, clocks[k], clocks[k + 1]),
                        id, clocks, k + 1)

\* MirTypeInference::enforce_clocks, but with the clocks left as they are
enforce_clocks_unchecked(st, id, tys) == InfOk(st)

\* MirTypeInference::enforce_clocks
enforce_clocks(st, id, tys) ==
    unify_adjacent(InfOk(st), id, signal_clocks(st.ctx, tys), 1)

\* try_binop, AluBinary::Add | .. | Sub, but with the result unified with
\* the first operand alone
binop_arithmetic_first(st, id, op) == unify(st, id, op.lhs, op.arg1)

\* try_binop, AluBinary::Add | Mul | BitAnd | BitOr | BitXor | Sub
binop_arithmetic(st, id, op) ==
    LET a1_is_signal == is_signal(st.ctx, op.arg1)
        a2_is_signal == is_signal(st.ctx, op.arg2)
        r1 == unify_if(InfOk(st), a1_is_signal, id, op.lhs, op.arg1)
        r2 == unify_if(r1, a2_is_signal, id, op.lhs, op.arg2)
        r3 == unify_if(r2, ~a1_is_signal /\ ~a2_is_signal, id, op.lhs, op.arg1)
        r4 == unify_if(r3, ~a1_is_signal /\ ~a2_is_signal, id, op.lhs, op.arg2)
        r5 == unify_values(r4, id, op.arg1, op.arg2)
        r6 == unify_values(r5, id, op.lhs, op.arg1)
    IN  unify_values(r6, id, op.lhs, op.arg2)

\* if let Some(clock) = project_signal_clock(arg) { unify(lhs, signal(bool, clock))? }
unify_bool_signal(r, id, lhs, arg) ==
    IF ~r.ok THEN r
    ELSE LET clock == project_signal_clock(r.st.ctx, arg) IN
         IF clock = None THEN r
         ELSE unify(r.st, id, lhs, TySignal(ty_bool, clock[1]))

\* if !is_signal(arg1) && !is_signal(arg2) { unify(lhs, bool)? }
unify_bool_unless_signal(r, id, op) ==
    IF ~r.ok THEN r
    ELSE IF ~is_signal(r.st.ctx, op.arg1) /\ ~is_signal(r.st.ctx, op.arg2)
    THEN unify(r.st, id, op.lhs, ty_bool)
    ELSE r

\* try_binop, AluBinary::Eq | Lt | Le | Ne | Ge | Gt
binop_comparison(st, id, op) ==
    unify_values(
        unify_bool_unless_signal(
            unify_bool_signal(
                unify_bool_signal(InfOk(st), id, op.lhs, op.arg1),
                id, op.lhs, op.arg2),
            id, op),
        id, op.arg1, op.arg2)

\* if let Some(flag) = project_sign_flag(arg2) { unify(flag, Unsigned)? },
\* arg2 being the Option that project_signal_value gave
unify_shift_amount(st, id, arg2) ==
    IF arg2 = None \/ project_sign_flag(st.ctx, arg2[1]) = None THEN InfOk(st)
    ELSE unify(st, id, project_sign_flag(st.ctx, arg2[1])[1],
               ty_sign_flag("Unsigned"))

\* if let (Some(lhs_data), Some(arg1_data)) = .. { unify(lhs_data, arg1_data)? }
\* else { unify(lhs, arg1)? }
unify_shifted(r, id, op) ==
    IF ~r.ok THEN r
    ELSE IF /\ project_signal_value(r.st.ctx, op.lhs) # None
            /\ project_signal_value(r.st.ctx, op.arg1) # None
    THEN unify(r.st, id, project_signal_value(r.st.ctx, op.lhs)[1],
               project_signal_value(r.st.ctx, op.arg1)[1])
    ELSE unify(r.st, id, op.lhs, op.arg1)

\* try_binop, AluBinary::Shl | Shr: the sign flag of the shift amount is
\* unified with Unsigned, and the result with the value shifted
binop_shift(st, id, op) ==
    unify_shifted(
        unify_shift_amount(st, id, project_signal_value(st.ctx, op.arg2)),
        id, op)

\* the arm of try_binop for the operator, after enforce_clocks
binop_arm(r, id, op) ==
    IF ~r.ok THEN r
    ELSE IF op.op = "Add" THEN binop_arithmetic(r.st, id, op)
    ELSE IF op.op = "Eq" THEN binop_comparison(r.st, id, op)
    ELSE binop_shift(r.st, id, op)

\* MirTypeInference::try_binop
try_binop(st, id, op) ==
    binop_arm(enforce_clocks(st, id, <<apply(st.ctx, op.arg1),
                                       apply(st.ctx, op.arg2), op.lhs>>),
              id, op)

\* match self.ty_path_project(arg, path, id) { Ok(ty) => unify(lhs, ty),
\* Err(_) => Ok(()) }
unify_projected(r, id, op) ==
    IF ~r.ok \/ project_signal_value(r.st.ctx, op.arg) = None THEN r
    ELSE unify(r.st, id, op.lhs, project_signal_value(r.st.ctx, op.arg)[1])

\* MirTypeInference::try_index for the path [SignalValue]: a projection
\* that fails is retried in the next round
try_index(st, id, op) ==
    unify_projected(enforce_clocks(st, id, <<op.lhs, op.arg>>), id, op)

\* MirTypeInference::clock_domain_for_error
clock_domain_for_error(ctx, ty) ==
    LET clock == project_signal_clock(ctx, ty) IN
    IF clock = None THEN "Const"
    ELSE IF clock[1].tag = "Clock" THEN clock[1].color
    ELSE "Const"

\* if enforce_clocks(..).is_err() { return Err(RHDLClockCoherenceViolation) }
clock_coherence_violation(r, id, op) ==
    IF r.ok THEN r
    ELSE InfFail(r.st,
             [kind |-> "RHDLClockCoherenceViolation",
              elements |-> <<[label |-> "Selector belongs to clock domain",
                              domain |-> clock_domain_for_error(r.st.ctx, op.selector)],
                             [label |-> "True value belongs to clock domain",
                              domain |-> clock_domain_for_error(r.st.ctx, op.true_value)],
                             [label |-> "False value belongs to clock domain",
                              domain |-> clock_domain_for_error(r.st.ctx, op.false_value)]>>,
              cause_description |->
                  "Select operation requires all three belong to the same clock domain",
              cause_span |-> id])

\* MirTypeInference::try_select
try_select(st, id, op) ==
    clock_coherence_violation(
        enforce_clocks(st, id, <<op.selector, op.true_value, op.false_value>>),
        id, op)

\* MirTypeInference::try_type_op
try_type_op(st, op) ==
    IF op.kind = "BinOp" THEN try_binop(st, op.id, op)
    ELSE IF op.kind = "Index" THEN try_index(st, op.id, op)
    ELSE try_select(st, op.id, op)

\* for op in ops { self.try_type_op(op)?; } from the k-th type operation on
RECURSIVE try_all_type_ops(_, _, _)
try_all_type_ops(r, ops, k) ==
    IF ~r.ok \/ k > Len(ops) THEN r
    ELSE try_all_type_ops(try_type_op(r.st, ops[k]), ops, k + 1)

\* Mir::find_root_for_slot: the chain of Assigns is followed while the
\* span of the assigned slot lies inside the span of the context
RECURSIVE find_root_for_slot(_, _)
find_root_for_slot(mir, slot) ==
    IF /\ mir.nested
       /\ \E i \in 1..Len(mir.ops) :
              mir.ops[i].code = "Assign" /\ mir.ops[i].lhs = slot
    THEN find_root_for_slot(mir,
             mir.ops[CHOOSE i \in 1..Len(mir.ops) :
                         mir.ops[i].code = "Assign" /\ mir.ops[i].lhs = slot].rhs)
    ELSE slot

\* self.type_ops.push(..) after the unifications before it succeeded
push_type_op(r, type_op) ==
    IF ~r.ok THEN r
    ELSE InfOk([r.st EXCEPT !.type_ops = Append(@, type_op)])

\* process_ops for one opcode; id is the position of the opcode
process_op(st, mir, id) ==
    LET op == mir.ops[id] IN
    IF op.code = "Assign"
    THEN LET s == with_slots(st, {op.lhs, op.rhs}) IN
         unify(s, id, slot_ty(s, op.lhs), slot_ty(s, op.rhs))
    ELSE IF op.code = "Binary"
    THEN LET s == with_slots(st, {op.lhs, op.arg1, op.arg2}) IN
         InfOk([s EXCEPT !.type_ops =
                   Append(@, [kind |-> "BinOp", id |-> id, op |-> op.op,
                              lhs |-> slot_ty(s, op.lhs),
                              arg1 |-> slot_ty(s, op.arg1),
                              arg2 |-> slot_ty(s, op.arg2)])])
    ELSE IF op.code = "Index"
    THEN LET s == with_slots(st, {op.lhs, op.arg}) IN
         InfOk([s EXCEPT !.type_ops =
                   Append(@, [kind |-> "Index", id |-> id,
                              lhs |-> slot_ty(s, op.lhs),
                              arg |-> slot_ty(s, op.arg)])])
    ELSE IF op.code = "AsBits"
    THEN LET s == with_slots(st, {op.arg, op.lhs})
             len == IF op.len = None THEN ty_var(s) ELSE ty_const_len(op.len[1])
             t == IF op.len = None THEN after_ty_var(s) ELSE s
         IN  unify_if(unify(t, id, slot_ty(s, op.lhs), ty_bits(len)),
                      TRUE, id, slot_ty(s, op.arg),
                      ty_bits(ty_const_len(IntBits)))
    ELSE LET cond == find_root_for_slot(mir, op.cond)
             true_value == find_root_for_slot(mir, op.true_value)
             false_value == find_root_for_slot(mir, op.false_value)
             s == with_slots(st, {op.lhs, cond, true_value, false_value})
         IN  push_type_op(
                 unify_if(unify(s, id, slot_ty(s, op.lhs), slot_ty(s, true_value)),
                          TRUE, id, slot_ty(s, op.lhs), slot_ty(s, false_value)),
                 [kind |-> "Select", id |-> id,
                  selector |-> slot_ty(s, cond),
                  true_value |-> slot_ty(s, true_value),
                  false_value |-> slot_ty(s, false_value)])

\* MirTypeInference::process_ops from the k-th opcode on
RECURSIVE process_ops(_, _, _)
process_ops(r, mir, k) ==
    IF ~r.ok \/ k > Len(mir.ops) THEN r
    ELSE process_ops(process_op(r.st, mir, k), mir, k + 1)

\* the Mirs handed to infer: three arguments of declared Kind, opcodes that
\* each write a fresh register and read the registers before it, a literal
\* or Slot::Empty, and the last register as the return slot, of declared
\* Kind; the literals are the integers the opcodes read
InfKinds == {Bits(1), Signed(1), KSignal("Red"), KSignal("Green")}
MirOpsAt(k) ==
    LET lhs == 2 + k
        p == lhs - 1
    IN  [code : {"Binary"}, op : {"Add", "Eq", "Shl"}, lhs : {lhs},
         arg1 : {p - 1}, arg2 : {p}]
        \cup [code : {"Binary"}, op : {"Add", "Eq", "Shl"}, lhs : {lhs},
              arg1 : {p}, arg2 : {p - 2}]
        \cup [code : {"Binary"}, op : {"Add", "Shl"}, lhs : {lhs},
              arg1 : {p}, arg2 : MirLits]
        \cup [code : {"Select"}, lhs : {lhs}, cond : {p - 2},
              true_value : {p - 1}, false_value : {p}]
        \cup [code : {"Select"}, lhs : {lhs}, cond : {p},
              true_value : {p - 2}, false_value : {p - 1}]
        \cup [code : {"Assign"}, lhs : {lhs}, rhs : {p, MirEmpty} \cup MirLits]
        \cup [code : {"Index"}, lhs : {lhs}, arg : {p}]
        \cup [code : {"AsBits"}, lhs : {lhs}, arg : MirLits,
              len : {None, Some(1)}]
MirOpSeqs ==
    UNION {{ops \in [1..n -> UNION {MirOpsAt(k) : k \in 1..n}] :
               \A k \in 1..n : ops[k] \in MirOpsAt(k)} : n \in 1..MaxMirOps}

\* the slots an opcode reads and writes
MirOperands(op) ==
    IF op.code = "Binary" THEN {op.lhs, op.arg1, op.arg2}
    ELSE IF op.code = "Select"
    THEN {op.lhs, op.cond, op.true_value, op.false_value}
    ELSE IF op.code \in {"Index", "AsBits"} THEN {op.lhs, op.arg}
    ELSE {op.lhs, op.rhs}

\* the literal tables of a Mir with these opcodes: an integer for each
\* literal slot that an opcode reads
MirIntegers == {LitInt("", <<5>>), LitInt("", <<1>>)}
MirLiteralsOf(ops) ==
    [(MirLits \cap UNION {MirOperands(ops[i]) : i \in 1..Len(ops)})
        -> MirIntegers]
MirBodies ==
    UNION {{<<ops, literals>> : literals \in MirLiteralsOf(ops)} :
              ops \in MirOpSeqs}
MirOf(args, ops, ret, nested, literals) ==
    [ty |-> [s \in MirArgs \cup {2 + Len(ops)} |->
                IF s \in MirArgs THEN args[s] ELSE ret],
     ops |-> ops,
     literals |-> literals,
     arguments |-> <<0, 1, 2>>,
     return_slot |-> 2 + Len(ops),
     nested |-> nested]

\* UnifyContext::ty_integer: bits of a sign flag and a length that are
\* both variables
ty_integer(st) ==
    ty_with_sign_and_len(ty_var(st), ty_var(after_ty_var(st)))

\* UnifyContext::ty_maybe_signed: bits of this length whose sign flag is a
\* variable
ty_maybe_signed(st, len) == ty_with_sign_and_len(ty_var(st), len)

\* the least slot of a set, the first key of a BTreeMap
first_slot(slots) == CHOOSE s \in slots : \A t \in slots : s <= t

\* MirTypeInference::import_literals over the literals not yet imported
RECURSIVE import_literals(_, _, _)
import_literals(st, mir, slots) ==
    IF slots = {} THEN st
    ELSE LET slot == first_slot(slots)
             lit == mir.literals[slot]
             ty == IF lit.tag = "TypedBits" THEN from_kind(lit.value.kind)
                   ELSE IF lit.tag = "Int" THEN ty_integer(st)
                   ELSE ty_bool
             made == IF lit.tag = "Int" THEN after_ty_var(after_ty_var(st))
                     ELSE st
         IN  import_literals(
                 [made EXCEPT !.slot_map =
                     [s \in DOMAIN st.slot_map \cup {slot} |->
                         IF s = slot THEN ty ELSE st.slot_map[s]]],
                 mir, slots \ {slot})

\* MirTypeInference::import_signature and import_type_declarations
import_type_declarations(st, mir) ==
    [st EXCEPT !.slot_map =
        [s \in DOMAIN st.slot_map \cup DOMAIN mir.ty |->
            IF s \in DOMAIN mir.ty THEN from_kind(mir.ty[s])
            ELSE st.slot_map[s]]]

\* the break conditions of the loop of try_type_ops, but without the one
\* for a round that changed nothing
try_type_ops_break_when_resolved(mod_state, st) == all_slots_resolved(st)

\* the break conditions of the loop of try_type_ops after a round
try_type_ops_break(mod_state, st) ==
    \/ modification_state(st.ctx) = mod_state
    \/ all_slots_resolved(st)

\* infer(): a literal whose length is unknown is unified with bits of
\* length 32, but of the sign flag Unsigned
replace_generic_with_b32(st, lit) ==
    LET ty == slot_ty(st, lit) IN
    IF is_unsized_integer(st.ctx, ty)
    THEN unify(st, lit, ty, ty_bits(ty_const_len(DefaultLen)))
    ELSE InfOk(st)

\* infer(): a literal whose length is unknown is unified with bits of
\* length 32 and of a sign flag still unknown
replace_generic_with_m32(st, lit) ==
    LET ty == slot_ty(st, lit) IN
    IF is_unsized_integer(st.ctx, ty)
    THEN LET i32_len == ty_const_len(DefaultLen)
             m32_ty == ty_maybe_signed(st, i32_len)
         IN  unify(after_ty_var(st), lit, ty, m32_ty)
    ELSE InfOk(st)

\* infer(): a literal whose sign flag is unknown is left as it is
replace_generic_with_nothing(st, lit) == InfOk(st)

\* infer(): a literal whose sign flag is unknown is given the flag Signed
replace_generic_with_i32(st, lit) ==
    LET ty == slot_ty(st, lit)
        ty_sign == project_sign_flag(st.ctx, ty)
    IN  IF ty_sign # None /\ is_unresolved(st.ctx, ty_sign[1])
        THEN unify(st, lit, ty_sign[1], ty_sign_flag("Signed"))
        ELSE InfOk(st)

\* for lit in mir.literals.keys(), for the literals not yet visited, in
\* the first defaulting step and in the second
RECURSIVE replace_generic_literals(_, _, _)
replace_generic_literals(r, step, lits) ==
    IF ~r.ok \/ lits = {} THEN r
    ELSE LET lit == first_slot(lits) IN
         replace_generic_literals(
             IF step = 1 THEN replace_generic_with_m32(r.st, lit)
             ELSE replace_generic_with_i32(r.st, lit),
             step, lits \ {lit})

\* infer(): the Object's kind map, a Kind for every slot of slot_map
final_kind_map(st) ==
    [s \in DOMAIN st.slot_map |-> into_kind(st.ctx, st.slot_map[s])[1]]

\* infer(): the literals cast into their Kinds; the first failure, if any
cast_literals(mir, kind) ==
    LET failed == {s \in DOMAIN mir.literals :
                      ~cast_literal_to_inferred_type(mir.literals[s], kind[s]).ok}
    IN  IF failed = {} THEN TbOk(<<>>)
        ELSE cast_literal_to_inferred_type(mir.literals[first_slot(failed)],
                                           kind[first_slot(failed)])

\* the literals of slot_map whose sign flag and length are both variables
unfixed_literals(st) ==
    {lit \in MirLits \cap DOMAIN st.slot_map :
        /\ is_unsized_integer(st.ctx, st.slot_map[lit])
        /\ is_unresolved(st.ctx, project_sign_flag(st.ctx, st.slot_map[lit])[1])}

InfCurrent == InfState(inf_ctx, inf_slot_map, inf_type_ops, inf_var)

\* an outcome of a method of MirTypeInference taken over: its state, and
\* its error if it failed
InfTake(r) ==
    /\ inf_ctx' = r.st.ctx
    /\ inf_slot_map' = r.st.slot_map
    /\ inf_type_ops' = r.st.type_ops
    /\ inf_var' = r.st.var
    /\ IF r.ok
       THEN UNCHANGED <<inf_status, inf_error>>
       ELSE inf_status' = "err" /\ inf_error' = r.err

\* infer(): MirTypeInference::new and the imports of the literals, of the
\* signature and of the type declarations
InfImport ==
    /\ inf_status = "idle"
    /\ inf_status' = "running"
    /\ LET new == InfState([v \in TypeVars |-> Unbound], <<>>, <<>>, 0)
           st == import_type_declarations(
                     import_literals(new, inf_mir, DOMAIN inf_mir.literals),
                     inf_mir)
       IN  /\ inf_ctx' = st.ctx
           /\ inf_slot_map' = st.slot_map
           /\ inf_type_ops' = st.type_ops
           /\ inf_var' = st.var
    /\ inf_pc' = "process_ops_1"
    /\ UNCHANGED <<inf_mir, inf_round, inf_error, inf_kind, inf_hist,
                   inf_unfixed>>
    /\ UNCHANGED <<cc_vars, dfg_vars, vm_vars, tb_vars, mux_vars, stc_vars, mb_vars, cpe_vars, axi_vars>>

\* infer(): the two calls of process_ops
InfProcessOps ==
    /\ inf_status = "running"
    /\ inf_pc \in {"process_ops_1", "process_ops_2"}
    /\ InfTake(process_ops(InfOk(InfCurrent), inf_mir, 1))
    /\ inf_pc' = IF inf_pc = "process_ops_1" THEN "process_ops_2"
                 ELSE "type_ops_1"
    /\ UNCHANGED <<inf_mir, inf_round, inf_kind, inf_hist, inf_unfixed>>
    /\ UNCHANGED <<cc_vars, dfg_vars, vm_vars, tb_vars, mux_vars, stc_vars, mb_vars, cpe_vars, axi_vars>>

\* the end of one iteration of the loop of try_type_ops: r is the outcome
\* of the type operations, leave tells whether the loop ends
InfEndRound(mod_state, r, leave) ==
    /\ InfTake(r)
    /\ inf_round' = IF leave THEN 0 ELSE inf_round + 1
    /\ inf_hist' = [call |-> inf_pc,
                    rounds |-> inf_round + 1,
                    failed |-> ~r.ok,
                    changed |-> modification_state(r.st.ctx) # mod_state,
                    resolved |-> all_slots_resolved(r.st),
                    left |-> leave]
    /\ inf_pc' = IF ~leave THEN inf_pc
                 ELSE IF inf_pc = "type_ops_1" THEN "default_1"
                 ELSE IF inf_pc = "type_ops_2" THEN "default_2"
                 ELSE "finish"

\* try_type_ops called with an iteration_count of 1
try_type_ops_ends_at_once(mod_state, r, loop_count) == TRUE

\* whether the loop of try_type_ops ends after a round with this outcome
try_type_ops_ends(mod_state, r, loop_count) ==
    \/ ~r.ok
    \/ try_type_ops_break(mod_state, r.st)
    \/ loop_count + 1 >= IterationCount

\* the loop of try_type_ops after its type operations had the outcome r
InfRound(mod_state, r) ==
    InfEndRound(mod_state, r, try_type_ops_ends(mod_state, r, inf_round))

\* one iteration of the loop of try_type_ops, in each of its three calls
InfTryTypeOps ==
    /\ inf_status = "running"
    /\ inf_pc \in {"type_ops_1", "type_ops_2", "type_ops_3"}
    /\ InfRound(modification_state(inf_ctx),
                try_all_type_ops(InfOk(InfCurrent), inf_type_ops, 1))
    /\ UNCHANGED <<inf_mir, inf_kind, inf_unfixed>>
    /\ UNCHANGED <<cc_vars, dfg_vars, vm_vars, tb_vars, mux_vars, stc_vars, mb_vars, cpe_vars, axi_vars>>

\* infer(): the two defaulting steps
InfDefaultLiterals ==
    /\ inf_status = "running"
    /\ inf_pc \in {"default_1", "default_2"}
    /\ IF all_slots_resolved(InfCurrent)
       THEN UNCHANGED <<inf_ctx, inf_slot_map, inf_type_ops, inf_var,
                        inf_status, inf_error>>
       ELSE InfTake(replace_generic_literals(
                        InfOk(InfCurrent),
                        IF inf_pc = "default_1" THEN 1 ELSE 2,
                        DOMAIN inf_mir.literals))
    /\ inf_unfixed' = IF inf_pc = "default_1" THEN unfixed_literals(InfCurrent)
                      ELSE inf_unfixed
    /\ inf_pc' = IF inf_pc = "default_1" THEN "type_ops_2" ELSE "type_ops_3"
    /\ UNCHANGED <<inf_mir, inf_round, inf_kind, inf_hist>>
    /\ UNCHANGED <<cc_vars, dfg_vars, vm_vars, tb_vars, mux_vars, stc_vars, mb_vars, cpe_vars, axi_vars>>

\* infer(): the check for an unresolved slot, the Object's kind map and
\* the cast of its literals
InfFinish ==
    /\ inf_status = "running"
    /\ inf_pc = "finish"
    /\ LET ty == unresolved_slot_typeid(InfCurrent) IN
       IF ty # None
       THEN /\ inf_status' = "err"
            /\ inf_error' = [kind |-> "RHDLTypeError",
                             cause |-> "UnableToDetermineType",
                             cause_span |-> ty[1]]
            /\ UNCHANGED inf_kind
       ELSE LET kind == final_kind_map(InfCurrent)
                literals == cast_literals(inf_mir, kind)
            IN  IF literals.ok
                THEN /\ inf_status' = "ok"
                     /\ inf_kind' = kind
                     /\ UNCHANGED inf_error
                ELSE /\ inf_status' = "err"
                     /\ inf_error' = [kind |-> literals.error]
                     /\ UNCHANGED inf_kind
    /\ inf_pc' = "done"
    /\ UNCHANGED <<inf_mir, inf_ctx, inf_slot_map, inf_type_ops, inf_round,
                   inf_var, inf_hist, inf_unfixed>>
    /\ UNCHANGED <<cc_vars, dfg_vars, vm_vars, tb_vars, mux_vars, stc_vars, mb_vars, cpe_vars, axi_vars>>

InfInit ==
    /\ inf_mir \in {MirOf(args, ops, ret, nested, literals) :
                       args \in [MirArgs -> InfKinds], ret \in InfKinds,
                       nested \in BOOLEAN,
                       <<ops, literals>> \in MirBodies}
    /\ inf_ctx = <<>>
    /\ inf_slot_map = <<>>
    /\ inf_type_ops = <<>>
    /\ inf_pc = "start"
    /\ inf_round = 0
    /\ inf_status = "idle"
    /\ inf_error = [kind |-> "none"]
    /\ inf_kind = <<>>
    /\ inf_var = 0
    /\ inf_hist = <<>>
    /\ inf_unfixed = {}
    /\ CCIdle
    /\ DFGIdle
    /\ VMIdle
    /\ TBIdle
    /\ MuxIdle
    /\ STCIdle
    /\ MBIdle
    /\ CPEIdle
    /\ AXIIdle

InfNext ==
    \/ InfImport
    \/ InfProcessOps
    \/ InfTryTypeOps
    \/ InfDefaultLiterals
    \/ InfFinish

SpecInfer == InfInit /\ [][InfNext]_vars

(***************************************************************************)
(* Claims about inference.                                                 *)
(***************************************************************************)
\* the slots of an opcode that carry a clock color in a kind map
MirColored(kind, op) ==
    {s \in MirOperands(op) \cap DOMAIN kind : kind[s].tag = "Signal"}

\* C1: in the Object that inference returns, the operands and the result
\* of every binary, index and select opcode that carry a clock color all
\* carry the same color.
InferAcceptsOnlyCoherent ==
    inf_status = "ok" =>
        \A i \in 1..Len(inf_mir.ops) :
            inf_mir.ops[i].code \in {"Binary", "Index", "Select"} =>
                \A s, t \in MirColored(inf_kind, inf_mir.ops[i]) :
                    inf_kind[s].color = inf_kind[t].color

\* inference has accepted a select between signals, whose selector is a
\* signal too, followed by a binary opcode on its result and a signal
InferCoherentWitness ==
    /\ inf_status = "ok"
    /\ Len(inf_mir.ops) = 2
    /\ inf_mir.ops[1].code = "Select"
    /\ Cardinality(MirColored(inf_kind, inf_mir.ops[1])) = 4
    /\ inf_mir.ops[2].code = "Binary"
    /\ Cardinality(MirColored(inf_kind, inf_mir.ops[2])) = 3

\* the Mir of `if cond { a } else { b }` whose cond and a are declared
\* signals of one clock domain and b a signal of another, the result being
\* declared as a is
MirSelectBranchesDiffer ==
    LET op == inf_mir.ops[1] IN
    /\ op.code = "Select"
    /\ inf_mir.ty[op.true_value].tag = "Signal"
    /\ inf_mir.ty[op.false_value].tag = "Signal"
    /\ inf_mir.ty[op.true_value].color # inf_mir.ty[op.false_value].color
    /\ inf_mir.ty[op.cond] = inf_mir.ty[op.true_value]
    /\ op.lhs \in DOMAIN inf_mir.ty => inf_mir.ty[op.lhs] = inf_mir.ty[op.true_value]

\* C2 (as claimed): inference of a select whose value branches are signals
\* of different clock domains fails with a clock-coherence violation for
\* the select, which carries one labeled element per operand and the
\* reason, and not with the generic type-check error.
InferSelectMismatchIsClockViolation ==
    (inf_status \in {"ok", "err"} /\ MirSelectBranchesDiffer) =>
        /\ inf_status = "err"
        /\ inf_error.kind = "RHDLClockCoherenceViolation"
        /\ Len(inf_error.elements) = 3
        /\ inf_error.cause_span = 1


InferDefaultsLiteralToSigned32 ==
    inf_status = "ok" =>
        \A lit \in inf_unfixed : inf_kind[lit] = Signed(DefaultLen)

\* inference has accepted a Mir that assigns an integer literal to a
\* register no other opcode reads and no declaration types
InferDefaultedLiteralWitness ==
    /\ inf_status = "ok"
    /\ inf_unfixed # {}
    /\ \E i \in 1..Len(inf_mir.ops) :
           /\ inf_mir.ops[i].code = "Assign"
           /\ inf_mir.ops[i].rhs \in inf_unfixed
           /\ inf_kind[inf_mir.ops[i].lhs] = Signed(DefaultLen)

\* the slots of slot_map whose type has no Kind
InfUnresolved ==
    {s \in DOMAIN inf_slot_map : into_kind(inf_ctx, inf_slot_map[s]) = None}

\* C17: when infer() reaches its check with a slot whose type is still
\* unresolved after both defaulting steps, it fails with the type error
\* UnableToDetermineType for a slot that is unresolved, and returns no
\* Object.
InferUnresolvedSlotFails ==
    (inf_pc = "done" /\ InfUnresolved # {}) =>
        /\ inf_status = "err"
        /\ inf_error.kind = "RHDLTypeError"
        /\ inf_error.cause = "UnableToDetermineType"
        /\ inf_error.cause_span \in InfUnresolved
        /\ inf_kind = <<>>

\* infer() has failed for the result of a cast to bits of a length that
\* nothing else fixes, after both defaulting steps gave the literal cast
\* its type
InferUnresolvedSlotWitness ==
    /\ inf_pc = "done"
    /\ inf_status = "err"
    /\ inf_error.kind = "RHDLTypeError"
    /\ inf_hist.call = "type_ops_3"
    /\ \E i \in 1..Len(inf_mir.ops) :
           /\ inf_mir.ops[i].code = "AsBits"
           /\ inf_mir.ops[i].len = None
           /\ inf_error.cause_span = inf_mir.ops[i].lhs
           /\ into_kind(inf_ctx, inf_slot_map[inf_mir.ops[i].arg]) = Some(Bits(IntBits))

InfArithmetic ==
    {inf_mir.ops[i] : i \in {j \in 1..Len(inf_mir.ops) :
        inf_mir.ops[j].code = "Binary" /\ inf_mir.ops[j].op = "Add"}}

\* the Kind of the value a Signal Kind carries
SignalValueKind(kind) ==
    IF "base" \in DOMAIN kind THEN kind.base ELSE Bits(1)

\* C21 (as claimed): in the Object that inference returns, the result and
\* the two operands of an arithmetic or bitwise opcode have one Kind, a
\* Signal when an operand is a Signal and bits or signed otherwise.
InferArithmeticSharesOneType ==
    inf_status = "ok" =>
        \A op \in InfArithmetic :
            /\ inf_kind[op.lhs] = inf_kind[op.arg1]
            /\ inf_kind[op.lhs] = inf_kind[op.arg2]

\* C21: in the Object that inference returns, when an operand of an
\* arithmetic or bitwise opcode is a Signal the result has that Signal
\* Kind and each operand has either that Kind or, being no Signal, the
\* Kind of the Signal's value; when no operand is a Signal the result and
\* the two operands have one bits or signed Kind.
InferArithmeticSharesValueType ==
    inf_status = "ok" =>
        \A op \in InfArithmetic :
            LET lhs == inf_kind[op.lhs]
                args == {inf_kind[op.arg1], inf_kind[op.arg2]}
            IN  IF \E arg \in args : arg.tag = "Signal"
                THEN /\ lhs.tag = "Signal"
                     /\ \A arg \in args :
                            \/ arg = lhs
                            \/ arg.tag # "Signal" /\ arg = SignalValueKind(lhs)
                ELSE /\ args = {lhs}
                     /\ lhs.tag \in {"Bits", "Signed"}

\* inference has returned an Object with an arithmetic opcode of a Signal
\* and an integer literal, which has the Kind of the Signal's value
InferArithmeticWitness ==
    /\ inf_status = "ok"
    /\ \E op \in InfArithmetic :
           /\ inf_kind[op.arg1].tag = "Signal"
           /\ op.arg2 \in MirLits
           /\ inf_kind[op.arg2] = Bits(1)

\* the shift opcodes of the Mir inferred
InfShifts ==
    {inf_mir.ops[i] : i \in {j \in 1..Len(inf_mir.ops) :
        inf_mir.ops[j].code = "Binary" /\ inf_mir.ops[j].op = "Shl"}}

\* C22 (as claimed): in the Object that inference returns, the result of a
\* shift has the Kind of the value shifted and the shift amount is not
\* signed; inference of a Mir with a shift by a signed amount fails.
InferShiftResultMatchesLeft ==
    /\ inf_status = "ok" =>
           \A op \in InfShifts :
               /\ inf_kind[op.lhs] = inf_kind[op.arg1]
               /\ inf_kind[op.arg2].tag # "Signed"
    /\ (inf_pc = "done" /\ \E op \in InfShifts :
            op.arg2 \in DOMAIN inf_mir.ty /\ inf_mir.ty[op.arg2].tag = "Signed")
           => inf_status = "err"

is_bool(kind) == kind = Bits(1)

\* TypedBits::as_bool
as_bool(value) ==
    IF is_bool(value.kind) THEN VmOk(value.bits % 2 = 1)
    ELSE VmFail("CannotCastToBool")

Assign(lhs, rhs) == [code |-> "Assign", lhs |-> lhs, rhs |-> rhs]

\* run: the rewrite of a Select with a literal condition, always to the
\* true branch
rewrite_constant_to_true(select, literals) ==
    VmOk(Assign(select.lhs, select.true_value))

\* run: the rewrite of a Select whose condition is a literal
rewrite_constant(select, literals) ==
    LET val == literals[select.cond.ndx]
        b == as_bool(val)
    IN  IF ~b.ok THEN b
        ELSE IF b.value THEN VmOk(Assign(select.lhs, select.true_value))
        ELSE VmOk(Assign(select.lhs, select.false_value))

\* run: a Select with equal branches left as it is
rewrite_equal_skipped(select) == select

\* run: the rewrite of a Select whose condition is no literal
rewrite_equal(select) ==
    IF select.true_value = select.false_value
    THEN Assign(select.lhs, select.true_value)
    ELSE select

\* RemoveUnneededMuxesPass::run, the body of the loop for one opcode
remove_unneeded_mux(op, literals) ==
    IF op.code = "Select"
    THEN IF op.cond.kind = "Literal" THEN rewrite_constant(op, literals)
         ELSE VmOk(rewrite_equal(op))
    ELSE VmOk(op)

\* RemoveUnneededMuxesPass::run, the loop from opcode k on
RECURSIVE remove_unneeded_muxes(_, _)
remove_unneeded_muxes(input, k) ==
    IF k > Len(input.ops) THEN VmOk(input)
    ELSE LET op == remove_unneeded_mux(input.ops[k], input.literals) IN
         IF ~op.ok THEN op
         ELSE remove_unneeded_muxes([input EXCEPT !.ops[k] = op.value], k + 1)

\* RemoveUnneededMuxesPass::run
run(input) == remove_unneeded_muxes(input, 1)

\* execute_block over the opcodes from k on
RECURSIVE execute_block(_, _, _)
execute_block(state, ops, k) ==
    IF k > Len(ops) THEN VmOk(state)
    ELSE LET r == IF ops[k].code = "Select" THEN exec_select(state, ops[k])
                  ELSE exec_assign(state, ops[k])
         IN  IF ~r.ok THEN r ELSE execute_block(r.value, ops, k + 1)

\* vm::execute
execute(obj, arguments) ==
    LET err == check_arguments(obj, arguments) IN
    IF err.what # "none" THEN VmFail(err)
    ELSE LET state == [reg_stack |-> load_arguments(obj, arguments),
                       obj |-> obj]
             r == execute_block(state, obj.ops, 1)
         IN  IF ~r.ok THEN r
             ELSE return_value(obj, r.value.reg_stack, obj.return_slot)

\* the literals of the Object: false, true and two values of two bits
MuxLiterals ==
    [l \in 0..3 |-> IF l < 2 THEN TypedBits(Bits(1), l)
                    ELSE TypedBits(Bits(2), l - 1)]
MuxSelects ==
    [code : {"Select"},
     lhs : {VmLast},
     cond : {Register(0), Literal(0), Literal(1)},
     true_value : {Register(1), VmLast, Literal(2)},
     false_value : {Register(1), VmLast, Literal(2), Literal(3)}]
MuxAssigns ==
    [code : {"Assign"}, lhs : {VmLast},
     rhs : {Register(1), Literal(2), Literal(3)}]

\* the registers an opcode reads
MuxReads(op) ==
    {s \in (IF op.code = "Select"
            THEN {op.cond, op.true_value, op.false_value}
            ELSE {op.rhs}) : s.kind = "Register"}

\* every register an opcode reads is an argument or written by an earlier
\* opcode
MuxFlowChecked(ops) ==
    \A i \in 1..Len(ops) :
        \A s \in MuxReads(ops[i]) :
            \/ s \in {Register(0), Register(1)}
            \/ \E j \in 1..(i - 1) : ops[j].lhs = s

MuxOpSeqs ==
    {ops \in UNION {[1..n -> MuxSelects \cup MuxAssigns] : n \in 1..MuxMaxOps} :
        MuxFlowChecked(ops)}

MuxObject(ops) ==
    [name |-> "kernel",
     ops |-> ops,
     literals |-> MuxLiterals,
     arguments |-> <<Register(0), Register(1)>>,
     kind |-> [s \in {Register(0), Register(1)} |->
                  IF s = Register(0) THEN Bits(1) ELSE Bits(2)],
     return_slot |-> VmLast,
     externals |-> <<>>]

\* the pass runs on the Object
MuxRun ==
    /\ mux_pc = "start"
    /\ mux_once' = run(mux_obj)
    /\ mux_pc' = "once"
    /\ UNCHANGED <<mux_obj, mux_args, mux_twice>>
    /\ UNCHANGED <<cc_vars, dfg_vars, vm_vars, inf_vars, tb_vars, stc_vars, mb_vars, cpe_vars, axi_vars>>

\* the pass runs on its own output
MuxRunAgain ==
    /\ mux_pc = "once"
    /\ mux_once.ok
    /\ mux_twice' = run(mux_once.value)
    /\ mux_pc' = "twice"
    /\ UNCHANGED <<mux_obj, mux_args, mux_once>>
    /\ UNCHANGED <<cc_vars, dfg_vars, vm_vars, inf_vars, tb_vars, stc_vars, mb_vars, cpe_vars, axi_vars>>

MuxInit ==
    /\ mux_obj \in {MuxObject(ops) : ops \in MuxOpSeqs}
    /\ mux_args \in {<<TypedBits(Bits(1), c), TypedBits(Bits(2), v)>> :
                        c \in 0..1, v \in 0..2}
    /\ mux_once = <<>>
    /\ mux_twice = <<>>
    /\ mux_pc = "start"
    /\ CCIdle
    /\ DFGIdle
    /\ VMIdle
    /\ InfIdle
    /\ TBIdle
    /\ STCIdle
    /\ MBIdle
    /\ CPEIdle
    /\ AXIIdle

MuxNext == MuxRun \/ MuxRunAgain

SpecMux == MuxInit /\ [][MuxNext]_vars

(***************************************************************************)
(* Claims about the mux-removal pass.                                      *)
(***************************************************************************)
\* C12: the Object the pass returns, in which every Select with a literal
\* condition is an Assign of the branch the literal selects, gives in the
\* VM the result the Object handed to the pass gives, whatever the
\* arguments.
MuxPreservesResult ==
    mux_pc \in {"once", "twice"} =>
        /\ mux_once.ok
        /\ execute(mux_once.value, mux_args) = execute(mux_obj, mux_args)

\* the pass has replaced a Select on the literal false whose branches are
\* the argument and a literal, and the result is the literal
MuxPreservesWitness ==
    /\ mux_pc = "once"
    /\ mux_once.ok
    /\ Len(mux_obj.ops) = 1
    /\ mux_obj.ops[1].code = "Select"
    /\ mux_obj.ops[1].cond = Literal(0)
    /\ mux_obj.ops[1].true_value = Register(1)
    /\ mux_obj.ops[1].false_value = Literal(3)
    /\ mux_once.value.ops[1] = Assign(VmLast, Literal(3))
    /\ mux_args[2] = TypedBits(Bits(2), 0)
    /\ execute(mux_once.value, mux_args) = VmOk(TypedBits(Bits(2), 2))

\* C13: the pass turns every Select whose true_value and false_value are
\* the same slot into an Assign of that slot, and the pass run on its own
\* output returns that output unchanged.
MuxEqualBranchesIdempotent ==
    /\ mux_pc \in {"once", "twice"} =>
           /\ mux_once.ok
           /\ \A i \in 1..Len(mux_obj.ops) :
                  LET op == mux_obj.ops[i] IN
                  (op.code = "Select" /\ op.true_value = op.false_value) =>
                      mux_once.value.ops[i] = Assign(op.lhs, op.true_value)
    /\ mux_pc = "twice" =>
           /\ mux_twice.ok
           /\ mux_twice.value = mux_once.value

\* the pass has run twice on an Object with a Select on a register whose
\* branches are one slot, next to a Select it leaves alone
MuxIdempotentWitness ==
    /\ mux_pc = "twice"
    /\ mux_twice.ok
    /\ Len(mux_obj.ops) = 2
    /\ mux_obj.ops[1].code = "Select"
    /\ mux_obj.ops[1].cond = Register(0)
    /\ mux_obj.ops[1].true_value = Register(1)
    /\ mux_obj.ops[1].false_value = Literal(3)
    /\ mux_obj.ops[2].code = "Select"
    /\ mux_obj.ops[2].cond = Register(0)
    /\ mux_obj.ops[2].true_value = VmLast
    /\ mux_obj.ops[2].false_value = VmLast
    /\ mux_once.value.ops[1] = mux_obj.ops[1]
    /\ mux_once.value.ops[2] = Assign(VmLast, VmLast)

(***************************************************************************)
(* The completeness pass (compiler/rhif_passes/symbol_table_is_complete.rs)*)
(* over an Object: its opcodes, arguments, return slot, the slots its      *)
(* symbol table has an entry for and the slots its kind map has one for.   *)
(***************************************************************************)
StcSlots == {Register(0), Register(1), Literal(0)}
StcOps == {Assign(lhs, rhs) : lhs \in {Register(0), Register(1)}, rhs \in StcSlots}
StcOpSeqs == UNION {[1..n -> StcOps] : n \in 0..StcMaxOps}

\* remap_slots: the slots of an opcode, each handed to the closure
remap_slots(op) == {op.lhs, op.rhs}

\* SymbolTableIsComplete::run: used_set
used_set(input) ==
    {Register(input.arguments[i]) : i \in 1..Len(input.arguments)}
        \cup {input.return_slot}
        \cup UNION {remap_slots(input.ops[i]) : i \in 1..Len(input.ops)}

\* SymbolTableIsComplete::run: the Results it may return; the used set is
\* a HashSet, so the slot of the error is any of the missing ones
symbol_table_is_complete(input) ==
    LET missing == {slot \in used_set(input) :
                       slot \notin input.symbols.slot_map}
    IN  IF missing = {} THEN {VmOk(input)}
        ELSE {VmFail(ICE([cause |-> "SymbolTableIsIncomplete", slot |-> slot])) :
                  slot \in missing}

STCRun ==
    /\ stc_result = <<>>
    /\ \E result \in symbol_table_is_complete(stc_obj) :
           stc_result' = Some(result)
    /\ UNCHANGED stc_obj
    /\ UNCHANGED <<cc_vars, dfg_vars, vm_vars, inf_vars, tb_vars, mux_vars, mb_vars, cpe_vars, axi_vars>>

STCInit ==
    /\ stc_obj \in [ops : StcOpSeqs,
                    arguments : {<<>>, <<0>>},
                    return_slot : {Register(1), Literal(0)},
                    symbols : [slot_map : SUBSET StcSlots],
                    kind : SUBSET StcSlots]
    /\ stc_result = <<>>
    /\ CCIdle
    /\ DFGIdle
    /\ VMIdle
    /\ InfIdle
    /\ TBIdle
    /\ MuxIdle
    /\ MBIdle
    /\ CPEIdle
    /\ AXIIdle

STCNext == STCRun

SpecComplete == STCInit /\ [][STCNext]_vars

(***************************************************************************)
(* Claims about the completeness pass.                                     *)
(***************************************************************************)
\* the slots that appear in the opcodes of an Object
StcOpSlots(obj) == UNION {remap_slots(obj.ops[i]) : i \in 1..Len(obj.ops)}

\* C20 (as claimed): the pass returns the Object only if every slot of
\* every opcode has an entry in the symbol table and an entry in the kind
\* map; an Object with such a slot missing from either gets an internal
\* compiler error.
STCAcceptsOnlyComplete ==
    stc_result # <<>> =>
        LET result == stc_result[1]
            complete == \A slot \in StcOpSlots(stc_obj) :
                            /\ slot \in stc_obj.symbols.slot_map
                            /\ slot \in stc_obj.kind
        IN  /\ result.ok => complete
            /\ ~complete => (~result.ok /\ result.err.ice)

(***************************************************************************)
(* sim::clock_pos_edge: the clocked sample stream of an input iterator.    *)
(***************************************************************************)
\* ResetOrData::Reset, ResetOrData::Data(x)
Reset == <<>>
Data(x) == <<x>>
ResetOrData == {Reset, Data(0), Data(1)}

\* the periods tried: those for which `time + period / 2 - 1` does not
\* underflow at time 0
CpePeriods == 2..MaxPeriod

\* ClockPosEdge::this_sample, with time the time of the sample
this_sample(time, sample, clock) ==
    [time |-> time,
     clock |-> clock,
     reset |-> sample = Reset,
     value |-> IF sample = Reset THEN 0 ELSE sample[1]]

\* next() returns Some(this_sample(clock))
CpeReturn(time, sample, clock) ==
    cpe_out' = Append(cpe_out, this_sample(time, sample, clock))

\* State::Init => if let Some(data) = self.input.next()
CPENextInit ==
    /\ cpe_state = "Init"
    /\ Len(cpe_out) < MaxCalls
    /\ cpe_input > 0
    /\ \E data \in ResetOrData :
           /\ cpe_sample' = data
           /\ CpeReturn(cpe_time, data, FALSE)
    /\ cpe_input' = cpe_input - 1
    /\ cpe_state' = "Hold"
    /\ cpe_next_time' = cpe_time + cpe_period \div 2
    /\ UNCHANGED <<cpe_time, cpe_period>>
    /\ UNCHANGED <<cc_vars, dfg_vars, vm_vars, inf_vars, tb_vars, mux_vars, stc_vars, mb_vars, axi_vars>>

\* State::Init | State::Hold => else { self.state = State::Done; None }
CPENextExhausted ==
    /\ cpe_state \in {"Init", "Hold"}
    /\ cpe_input = 0
    /\ cpe_state' = "Done"
    /\ UNCHANGED <<cpe_input, cpe_sample, cpe_time, cpe_next_time, cpe_period,
                   cpe_out>>
    /\ UNCHANGED <<cc_vars, dfg_vars, vm_vars, inf_vars, tb_vars, mux_vars, stc_vars, mb_vars, axi_vars>>

\* State::ClockLow
CPENextClockLow ==
    /\ cpe_state = "ClockLow"
    /\ Len(cpe_out) < MaxCalls
    /\ cpe_state' = "Hold"
    /\ cpe_time' = cpe_next_time
    /\ cpe_next_time' = cpe_next_time + 1
    /\ CpeReturn(cpe_next_time, cpe_sample, TRUE)
    /\ UNCHANGED <<cpe_input, cpe_sample, cpe_period>>
    /\ UNCHANGED <<cc_vars, dfg_vars, vm_vars, inf_vars, tb_vars, mux_vars, stc_vars, mb_vars, axi_vars>>

\* State::Hold => if let Some(data) = self.input.next(): self.time is left
\* as it is
CPENextHold ==
    /\ cpe_state = "Hold"
    /\ Len(cpe_out) < MaxCalls
    /\ cpe_input > 0
    /\ \E data \in ResetOrData :
           /\ cpe_sample' = data
           /\ CpeReturn(cpe_time, data, TRUE)
    /\ cpe_input' = cpe_input - 1
    /\ cpe_state' = "ClockHigh"
    /\ cpe_next_time' = cpe_time + cpe_period \div 2 - 1
    /\ UNCHANGED <<cpe_time, cpe_period>>
    /\ UNCHANGED <<cc_vars, dfg_vars, vm_vars, inf_vars, tb_vars, mux_vars, stc_vars, mb_vars, axi_vars>>

\* State::ClockHigh
CPENextClockHigh ==
    /\ cpe_state = "ClockHigh"
    /\ Len(cpe_out) < MaxCalls
    /\ cpe_state' = "ClockLow"
    /\ cpe_time' = cpe_next_time
    /\ cpe_next_time' = cpe_next_time + cpe_period \div 2
    /\ CpeReturn(cpe_next_time, cpe_sample, FALSE)
    /\ UNCHANGED <<cpe_input, cpe_sample, cpe_period>>
    /\ UNCHANGED <<cc_vars, dfg_vars, vm_vars, inf_vars, tb_vars, mux_vars, stc_vars, mb_vars, axi_vars>>

\* State::Done => None
CPENextDone ==
    /\ cpe_state = "Done"
    /\ UNCHANGED cpe_vars
    /\ UNCHANGED <<cc_vars, dfg_vars, vm_vars, inf_vars, tb_vars, mux_vars, stc_vars, mb_vars, axi_vars>>

\* clock_pos_edge(input, period)
CPEInit ==
    /\ cpe_input \in 0..MaxSamples
    /\ cpe_sample = Reset
    /\ cpe_state = "Init"
    /\ cpe_time = 0
    /\ cpe_next_time = 0
    /\ cpe_period \in CpePeriods
    /\ cpe_out = <<>>
    /\ CCIdle
    /\ DFGIdle
    /\ VMIdle
    /\ InfIdle
    /\ TBIdle
    /\ MuxIdle
    /\ STCIdle
    /\ MBIdle
    /\ AXIIdle

\* ClockPosEdge::next
CPENext ==
    \/ CPENextInit
    \/ CPENextExhausted
    \/ CPENextClockLow
    \/ CPENextHold
    \/ CPENextClockHigh
    \/ CPENextDone

SpecClock == CPEInit /\ [][CPENext]_vars

(***************************************************************************)
(* Claims about clock_pos_edge.                                            *)
(***************************************************************************)
\* the samples at which the clock rises: it was false in the sample before
CpeRising == {k \in 2..Len(cpe_out) : cpe_out[k].clock /\ ~cpe_out[k - 1].clock}

\* C28 (as claimed): the timestamps of the samples never decrease, and two
\* consecutive rising edges of the clock are `period` apart.
CPERisingEdgesOnePeriodApart ==
    /\ \A k \in 2..Len(cpe_out) : cpe_out[k - 1].time <= cpe_out[k].time
    /\ \A i, j \in CpeRising :
           (i < j /\ \A k \in CpeRising : ~(i < k /\ k < j)) =>
               cpe_out[j].time - cpe_out[i].time = cpe_period

(***************************************************************************)
(* axi4lite::basic::write_bridge: the kernel of the basic subordinate.     *)
(***************************************************************************)
\* the values of a bus, of an ID, of an address and of DATA
AxiBus == {0, 1}
AxiIds == {0, 1}
AxiAddrs == {0, 1}
AxiData == {0, 1}
WriteAddress(id, addr) == [id |-> id, addr |-> addr]
WriteResponse(id, resp) == [id |-> id, resp |-> resp]

\* core::option::unpack: whether the Option holds a value, and the value
\* or the default
unpack(opt, default) ==
    IF opt = None THEN <<FALSE, default>> ELSE <<TRUE, opt[1]>>

\* the body of basic_subordinate_kernel up to the test of cr.reset
kernel_before_reset(i, q) ==
    LET addr == unpack(q.addr.data, WriteAddress(0, 0))
        data == unpack(q.data.data, 0)
        issue == addr[1] /\ data[1] /\ ~q.resp.full /\ ~i.full
    IN  [o |-> [axi |-> [addr |-> q.addr.bus, data |-> q.data.bus,
                         resp |-> q.resp.bus],
                write |-> IF issue THEN Some(<<addr[2].addr, data[2]>>)
                          ELSE None],
         d |-> [addr |-> [bus |-> i.axi.addr,
                          ready |-> issue \/ ~addr[1]],
                data |-> [bus |-> i.axi.data,
                          ready |-> issue \/ ~data[1]],
                resp |-> [bus |-> i.axi.resp,
                          to_send |-> IF issue
                                      THEN Some(WriteResponse(addr[2].id,
                                                              "OKAY"))
                                      ELSE None]]]

\* if cr.reset.any() { o.write = None; }
after_reset(cr, od) ==
    IF cr.reset THEN [od EXCEPT !.o.write = None] ELSE od

\* basic_subordinate_kernel
basic_subordinate_kernel(cr, i, q) == after_reset(cr, kernel_before_reset(i, q))

\* one clock cycle: the kernel computes O and D from the inputs
AXIKernel ==
    /\ axi_cr # <<>>
    /\ axi_o = <<>>
    /\ axi_o' = basic_subordinate_kernel(axi_cr, axi_i, axi_q).o
    /\ axi_d' = basic_subordinate_kernel(axi_cr, axi_i, axi_q).d
    /\ UNCHANGED <<axi_cr, axi_i, axi_q>>
    /\ UNCHANGED <<cc_vars, dfg_vars, vm_vars, inf_vars, tb_vars, mux_vars, stc_vars, mb_vars, cpe_vars>>

AXIInit ==
    /\ axi_cr \in [reset : BOOLEAN]
    /\ axi_i \in [axi : [addr : AxiBus, data : AxiBus, resp : AxiBus],
                  full : BOOLEAN]
    /\ axi_q \in [addr : [bus : AxiBus,
                          data : {None} \cup
                                 {Some(WriteAddress(id, addr)) :
                                     id \in AxiIds, addr \in AxiAddrs}],
                  data : [bus : AxiBus,
                          data : {None} \cup {Some(x) : x \in AxiData}],
                  resp : [bus : AxiBus, full : BOOLEAN]]
    /\ axi_o = <<>>
    /\ axi_d = <<>>
    /\ CCIdle
    /\ DFGIdle
    /\ VMIdle
    /\ InfIdle
    /\ TBIdle
    /\ MuxIdle
    /\ STCIdle
    /\ MBIdle
    /\ CPEIdle

AXINext == AXIKernel

SpecAxi == AXIInit /\ [][AXINext]_vars

(***************************************************************************)
(* Claims about the AXI write bridge.                                      *)
(***************************************************************************)
\* C29 (as claimed): in a cycle the kernel queues a write response exactly
\* when it issues the write, and it issues the write only when address and
\* data are valid, neither the response channel nor the downstream is full
\* and reset is not asserted.
AXIResponseIffWrite ==
    axi_o # <<>> =>
        /\ axi_d.resp.to_send # None <=> axi_o.write # None
        /\ axi_o.write # None =>
               /\ axi_q.addr.data # None
               /\ axi_q.data.data # None
               /\ ~axi_q.resp.full
               /\ ~axi_i.full
               /\ ~axi_cr.reset

(***************************************************************************)
(* compiler: the builder that lowers the AST of a kernel to blocks of      *)
(* opcodes.                                                                *)
(***************************************************************************)
\* ast::Expr, as far as the builder tells its variants apart
ExprLit(lit) == [tag |-> "Lit", lit |-> lit]
ExprUnary(unop, e) == [tag |-> "Unary", op |-> unop, expr |-> e]
ExprBinary(binop, lhs, rhs) == [tag |-> "Binary", op |-> binop, lhs |-> lhs, rhs |-> rhs]
ExprBlock(block) == [tag |-> "Block", block |-> block]
ExprIf(cond, then_branch, else_branch) ==
    [tag |-> "If", cond |-> cond, then_branch |-> then_branch,
     else_branch |-> else_branch]
ExprAssign(lhs, rhs) == [tag |-> "Assign", lhs |-> lhs, rhs |-> rhs]
ExprParen(e) == [tag |-> "Paren", expr |-> e]
ExprPath(path) == [tag |-> "Path", path |-> path]
ExprTuple(elems) == [tag |-> "Tuple", elems |-> elems]
ExprMatch(e, arms) == [tag |-> "Match", expr |-> e, arms |-> arms]
ExprCall(path, args) == [tag |-> "Call", path |-> path, args |-> args]
ExprField(e, member) == [tag |-> "Field", expr |-> e, member |-> member]
ExprIndex(e, index) == [tag |-> "Index", expr |-> e, index |-> index]
Arm(pattern, guard, body) == [pattern |-> pattern, guard |-> guard, body |-> body]

\* ast::Pattern
PatIdent(name) == [tag |-> "Ident", name |-> name]
PatWild == [tag |-> "Wild"]
PatLit(lit) == [tag |-> "Lit", lit |-> lit]
PatPath(path) == [tag |-> "Path", path |-> path]
PatTuple(elems) == [tag |-> "Tuple", elems |-> elems]
PatTupleStruct(path, elems) == [tag |-> "TupleStruct", path |-> path, elems |-> elems]
PatType(pattern, kind) == [tag |-> "Type", pattern |-> pattern, kind |-> kind]

\* ast::Stmt and ast::Block
StmtLocal(pattern, value) == [tag |-> "Local", pattern |-> pattern, value |-> value]
StmtExpr(e) == [tag |-> "Expr", expr |-> e]
StmtSemi(e) == [tag |-> "Semi", expr |-> e]
AstBlock(stmts) == [stmts |-> stmts]

\* rhif::OpCode
CallOp(block) == [code |-> "Call", block |-> block]
CopyOp(lhs, rhs) == [code |-> "Copy", lhs |-> lhs, rhs |-> rhs]
IfOp(lhs, cond, then_branch, else_branch) ==
    [code |-> "If", lhs |-> lhs, cond |-> cond, then_branch |-> then_branch,
     else_branch |-> else_branch]
RomOp(lhs, e, table) == [code |-> "Rom", lhs |-> lhs, expr |-> e, table |-> table]
RefOp(lhs, arg) == [code |-> "Ref", lhs |-> lhs, arg |-> arg]
FieldRefOp(lhs, arg, member) == [code |-> "FieldRef", lhs |-> lhs, arg |-> arg, member |-> member]
IndexRefOp(lhs, arg, index) == [code |-> "IndexRef", lhs |-> lhs, arg |-> arg, index |-> index]
FieldOp(lhs, arg, member) == [code |-> "Field", lhs |-> lhs, arg |-> arg, member |-> member]
TupleOp(lhs, fields) == [code |-> "Tuple", lhs |-> lhs, fields |-> fields]
ExecOp(lhs, path, args) == [code |-> "Exec", lhs |-> lhs, path |-> path, args |-> args]
UnaryOp(alu, lhs, arg1) == [code |-> "Unary", op |-> alu, lhs |-> lhs, arg1 |-> arg1]
BinaryOp(alu, lhs, arg1, arg2) ==
    [code |-> "Binary", op |-> alu, lhs |-> lhs, arg1 |-> arg1, arg2 |-> arg2]
RomArgument(kind, value) == [kind |-> kind, value |-> value]

\* const ROOT_BLOCK: BlockId = BlockId(0); block b is blocks[b + 1]
ROOT_BLOCK == 0

\* struct Block
MbBlock(id, result, parent) ==
    [id |-> id, names |-> <<>>, ops |-> <<>>, result |-> result,
     children |-> <<>>, parent |-> parent]

\* impl Default for Compiler
DefaultCompiler ==
    [blocks |-> <<MbBlock(ROOT_BLOCK, Empty, ROOT_BLOCK)>>,
     reg_count |-> 0,
     active_block |-> ROOT_BLOCK,
     types |-> <<>>]

\* what a method of the builder ends with: Ok(value) with the builder as it
\* has become, Err(error) of a bail! or a `?`, or the panic of a todo!
MbOk(c, value) == [status |-> "ok", c |-> c, value |-> value]
MbErr(error) == [status |-> "err", error |-> error]
MbPanic(error) == [status |-> "panic", error |-> error]

\* Compiler::reg
reg(c) == MbOk([c EXCEPT !.reg_count = @ + 1], Register(c.reg_count))

\* Compiler::bind
bind(c, name) ==
    MbOk([reg(c).c EXCEPT !.blocks[c.active_block + 1].names =
                              (name :> reg(c).value) @@ @],
         reg(c).value)

\* the loop of Compiler::get_reference, at block ip
RECURSIVE get_reference_from(_, _, _)
get_reference_from(c, ip, path) ==
    IF path \in DOMAIN c.blocks[ip + 1].names
    THEN MbOk(c, c.blocks[ip + 1].names[path])
    ELSE IF ip = ROOT_BLOCK
         THEN MbErr("Unknown path")
         ELSE get_reference_from(c, c.blocks[ip + 1].parent, path)

\* Compiler::get_reference
get_reference(c, path) == get_reference_from(c, c.active_block, path)

\* Compiler::op
op(c, opcode) == [c EXCEPT !.blocks[c.active_block + 1].ops = Append(@, opcode)]

\* Compiler::new_block
new_block(c, result) ==
    MbOk([c EXCEPT !.blocks =
                       Append([@ EXCEPT ![c.active_block + 1].children =
                                            Append(@, Len(c.blocks))],
                              MbBlock(Len(c.blocks), result, c.active_block)),
                   !.active_block = Len(c.blocks)],
         Len(c.blocks))

\* Compiler::set_block
set_block(c, id) == [c EXCEPT !.active_block = id]

\* Kind::get_tuple_kind
get_tuple_kind(kind, ndx) ==
    IF kind.tag = "Tuple" /\ ndx + 1 \in DOMAIN kind.elements
    THEN MbOk(<<>>, kind.elements[ndx + 1])
    ELSE MbErr("Not a tuple kind")

\* the methods of the builder call one another through self_call, which
\* hands the arguments to the method named
RECURSIVE self_call(_, _)
do_expr(a, b) == self_call("expr", <<a, b>>)
do_expr_list(a, b, c, d) == self_call("expr_list", <<a, b, c, d>>)
do_tuple(a, b) == self_call("tuple", <<a, b>>)
do_expr_call(a, b) == self_call("expr_call", <<a, b>>)
do_expr_unop(a, b) == self_call("expr_unop", <<a, b>>)
do_expr_binop(a, b) == self_call("expr_binop", <<a, b>>)
do_expr_match(a, b) == self_call("expr_match", <<a, b>>)
do_expr_rom(a, b) == self_call("expr_rom", <<a, b>>)
do_expr_arms(a, b, c, d, e, f) == self_call("expr_arms", <<a, b, c, d, e, f>>)
do_expr_arm(a, b, c, d) == self_call("expr_arm", <<a, b, c, d>>)
do_expr_arm_tuple_struct(a, b, c, d, e) == self_call("expr_arm_tuple_struct", <<a, b, c, d, e>>)
do_expr_lhs(a, b) == self_call("expr_lhs", <<a, b>>)
do_expr_assign(a, b) == self_call("expr_assign", <<a, b>>)
do_stmt(a, b) == self_call("stmt", <<a, b>>)
do_local(a, b) == self_call("local", <<a, b>>)
do_let_pattern(a, b, c) == self_call("let_pattern", <<a, b, c>>)
do_let_pattern_inner(a, b, c, d) == self_call("let_pattern_inner", <<a, b, c, d>>)
do_let_pattern_tuple(a, b, c, d, e) == self_call("let_pattern_tuple", <<a, b, c, d, e>>)
do_expr_if(a, b) == self_call("expr_if", <<a, b>>)
do_expr_block_inner(a, b, c, d) == self_call("expr_block_inner", <<a, b, c, d>>)
do_expr_block(a, b, c) == self_call("expr_block", <<a, b, c>>)
do_wrap_expr_in_block(a, b, c) == self_call("wrap_expr_in_block", <<a, b, c>>)


\* Compiler::compile
compile(c, ast) ==
    LET block_id == do_expr_block(reg(c).c, ast, reg(c).value)
    IN  IF block_id.status # "ok" THEN block_id
        ELSE MbOk(op(block_id.c, CallOp(block_id.value)), reg(c).value)

\* the arm of Compiler::expr for ast::Expr::Block
expr_block_call(c, block) ==
    LET block_id == do_expr_block(reg(c).c, block, reg(c).value)
    IN  IF block_id.status # "ok" THEN block_id
        ELSE MbOk(op(block_id.c, CallOp(block_id.value)), reg(c).value)

\* Compiler::expr (ast::Expr::Struct is not among the expressions tried)
expr(c, expr_) ==
    CASE expr_.tag = "Lit" -> MbOk(c, Literal(expr_.lit))
      [] expr_.tag = "Unary" -> do_expr_unop(c, expr_)
      [] expr_.tag = "Binary" -> do_expr_binop(c, expr_)
      [] expr_.tag = "Block" -> expr_block_call(c, expr_.block)
      [] expr_.tag = "If" -> do_expr_if(c, expr_)
      [] expr_.tag = "Assign" -> do_expr_assign(c, expr_)
      [] expr_.tag = "Paren" -> do_expr(c, expr_.expr)
      [] expr_.tag = "Path" -> get_reference(c, expr_.path)
      [] expr_.tag = "Tuple" -> do_tuple(c, expr_.elems)
      [] expr_.tag = "Match" -> do_expr_match(c, expr_)
      [] expr_.tag = "Call" -> do_expr_call(c, expr_)
      [] OTHER -> MbPanic("not yet implemented: expr")

\* self.expr over a list of expressions, in order, up to the first failure
expr_list(c, exprs, k, slots) ==
    IF k > Len(exprs) THEN MbOk(c, slots)
    ELSE LET slot == do_expr(c, exprs[k])
         IN  IF slot.status # "ok" THEN slot
             ELSE do_expr_list(slot.c, exprs, k + 1, Append(slots, slot.value))

\* Compiler::tuple
tuple(c, elems) ==
    LET fields == do_expr_list(reg(c).c, elems, 1, <<>>)
    IN  IF fields.status # "ok" THEN fields
        ELSE MbOk(op(fields.c, TupleOp(reg(c).value, fields.value)), reg(c).value)

\* Compiler::expr_call
expr_call(c, call) ==
    LET args == do_expr_list(reg(c).c, call.args, 1, <<>>)
    IN  IF args.status # "ok" THEN args
        ELSE MbOk(op(args.c, ExecOp(reg(c).value, call.path, args.value)),
                  reg(c).value)

\* Compiler::expr_unop
expr_unop(c, unop) ==
    LET arg == do_expr(c, unop.expr)
    IN  IF arg.status # "ok" THEN arg
        ELSE MbOk(op(reg(arg.c).c, UnaryOp(unop.op, reg(arg.c).value, arg.value)),
                  reg(arg.c).value)

\* the operators of expr_binop that assign to their left operand
SelfAssignOps ==
    {"AddAssign", "SubAssign", "MulAssign", "BitXorAssign", "BitAndAssign",
     "ShlAssign", "BitOrAssign", "ShrAssign"}

\* the AluBinary of a BinOp
AluOf(binop) ==
    CASE binop = "AddAssign" -> "Add"
      [] binop = "SubAssign" -> "Sub"
      [] binop = "MulAssign" -> "Mul"
      [] binop = "BitXorAssign" -> "BitXor"
      [] binop = "BitAndAssign" -> "BitAnd"
      [] binop = "BitOrAssign" -> "BitOr"
      [] binop = "ShlAssign" -> "Shl"
      [] binop = "ShrAssign" -> "Shr"
      [] OTHER -> binop

\* expr_binop once both operands are compiled
binop_emit(c, binop, lhs, rhs) ==
    IF binop.op \in SelfAssignOps
    THEN MbOk(op(c, BinaryOp(AluOf(binop.op), lhs, lhs, rhs)), lhs)
    ELSE MbOk(op(reg(c).c, BinaryOp(AluOf(binop.op), reg(c).value, lhs, rhs)),
              reg(c).value)

\* Compiler::expr_binop
expr_binop(c, binop) ==
    LET lhs == do_expr(c, binop.lhs)
    IN  IF lhs.status # "ok" THEN lhs
        ELSE LET rhs == do_expr(lhs.c, binop.rhs)
             IN  IF rhs.status # "ok" THEN rhs
                 ELSE binop_emit(rhs.c, binop, lhs.value, rhs.value)

\* the two shapes of arms that expr_match supports
all_literals_or_wild(arms) ==
    \A k \in DOMAIN arms : arms[k].pattern.tag \in {"Lit", "Wild"}
all_enum_or_wild(arms) ==
    \A k \in DOMAIN arms :
        arms[k].pattern.tag \in {"Path", "Struct", "TupleStruct", "Wild"}

\* expr_match without its checks of the arms
expr_match_unchecked(c, match_) == do_expr_rom(c, match_)

\* Compiler::expr_match
expr_match(c, match_) ==
    IF \E k \in DOMAIN match_.arms : match_.arms[k].guard # None
    THEN MbErr("RHDL does not currently support match guards in hardware")
    ELSE IF ~all_literals_or_wild(match_.arms) /\ ~all_enum_or_wild(match_.arms)
         THEN MbErr("RHDL currently supports only match arms with all literals or all enums")
         ELSE do_expr_rom(c, match_)

\* Compiler::expr_rom
expr_rom(c, match_) ==
    LET target == do_expr(reg(c).c, match_.expr)
    IN  IF target.status # "ok" THEN target
        ELSE LET table == do_expr_arms(target.c, target.value, reg(c).value,
                                    match_.arms, 1, <<>>)
             IN  IF table.status # "ok" THEN table
                 ELSE MbOk(op(table.c, RomOp(reg(c).value, target.value,
                                             table.value)),
                           reg(c).value)

\* self.expr_arm over the arms, in order, up to the first failure
expr_arms(c, target, lhs, arms, k, table) ==
    IF k > Len(arms) THEN MbOk(c, table)
    ELSE LET entry == do_expr_arm(c, target, lhs, arms[k])
         IN  IF entry.status # "ok" THEN entry
             ELSE do_expr_arms(entry.c, target, lhs, arms, k + 1,
                            Append(table, entry.value))

\* an arm whose body is wrapped in a block
arm_wrapped(c, argument, body, lhs) ==
    LET id == do_wrap_expr_in_block(c, Some(body), lhs)
    IN  IF id.status # "ok" THEN id ELSE MbOk(id.c, <<argument, id.value>>)

\* Compiler::expr_arm (ast::Pattern::Struct is not among the patterns tried)
expr_arm(c, target, lhs, arm) ==
    CASE arm.pattern.tag = "Wild" ->
             arm_wrapped(c, RomArgument("Wild", <<>>), arm.body, lhs)
      [] arm.pattern.tag = "Lit" ->
             arm_wrapped(c, RomArgument("Literal", Literal(arm.pattern.lit)),
                         arm.body, lhs)
      [] arm.pattern.tag = "Path" ->
             arm_wrapped(c, RomArgument("Path", arm.pattern.path), arm.body, lhs)
      [] arm.pattern.tag = "TupleStruct" ->
             do_expr_arm_tuple_struct(c, target, lhs, arm.pattern, arm.body)
      [] OTHER -> MbErr("Unsupported match pattern in hardware")

\* the bindings of expr_arm_tuple_struct: a register bound to each
\* identifier, and the opcode that extracts its field from the target
RECURSIVE bind_elems(_, _, _, _)
bind_elems(c, target, elems, k) ==
    IF k > Len(elems) THEN c
    ELSE IF elems[k].tag = "Ident"
         THEN bind_elems(op(bind(c, elems[k].name).c,
                            FieldOp(bind(c, elems[k].name).value, target, k - 1)),
                         target, elems, k + 1)
         ELSE bind_elems(c, target, elems, k + 1)

\* the body of an arm in the block of the arm, and back to block current_id
arm_body(c, current_id, id, lhs, argument, body) ==
    LET expr_output == do_expr(c, body)
    IN  IF expr_output.status # "ok" THEN expr_output
        ELSE MbOk(set_block(op(expr_output.c, CopyOp(lhs, expr_output.value)),
                            current_id),
                  <<argument, id>>)

\* Compiler::expr_arm_tuple_struct
expr_arm_tuple_struct(c, target, lhs, pattern, body) ==
    IF \E k \in DOMAIN pattern.elems : pattern.elems[k].tag \notin {"Ident", "Wild"}
    THEN MbErr("Unsupported match pattern in hardware")
    ELSE arm_body(bind_elems(new_block(c, lhs).c, target, pattern.elems, 1),
                  c.active_block, new_block(c, lhs).value, lhs,
                  RomArgument("Path", pattern.path), body)

\* Compiler::expr_lhs
expr_lhs(c, expr_) ==
    CASE expr_.tag = "Path" ->
             LET arg == get_reference(c, expr_.path)
             IN  IF arg.status # "ok" THEN arg
                 ELSE MbOk(op(reg(c).c, RefOp(reg(c).value, arg.value)),
                           reg(c).value)
      [] expr_.tag = "Field" ->
             LET arg == do_expr_lhs(reg(c).c, expr_.expr)
             IN  IF arg.status # "ok" THEN arg
                 ELSE MbOk(op(arg.c, FieldRefOp(reg(c).value, arg.value,
                                                expr_.member)),
                           reg(c).value)
      [] expr_.tag = "Index" ->
             LET arg == do_expr_lhs(reg(c).c, expr_.expr)
             IN  IF arg.status # "ok" THEN arg
                 ELSE LET index == do_expr(arg.c, expr_.index)
                      IN  IF index.status # "ok" THEN index
                          ELSE MbOk(op(index.c, IndexRefOp(reg(c).value, arg.value,
                                                           index.value)),
                                    reg(c).value)
      [] OTHER -> MbPanic("not yet implemented: expr_lhs")

\* Compiler::expr_assign
expr_assign(c, assign) ==
    LET lhs == do_expr_lhs(c, assign.lhs)
    IN  IF lhs.status # "ok" THEN lhs
        ELSE LET rhs == do_expr(lhs.c, assign.rhs)
             IN  IF rhs.status # "ok" THEN rhs
                 ELSE MbOk(op(rhs.c, Assign(lhs.value, rhs.value)), Empty)

\* Compiler::stmt
stmt(c, statement) ==
    CASE statement.tag = "Local" -> do_local(c, statement)
      [] statement.tag = "Expr" -> do_expr(c, statement.expr)
      [] statement.tag = "Semi" ->
             LET slot == do_expr(c, statement.expr)
             IN  IF slot.status # "ok" THEN slot ELSE MbOk(slot.c, Empty)

\* Compiler::local, with Slot::Empty for the statement
local(c, local_) ==
    IF local_.value = None
    THEN do_let_pattern(c, local_.pattern, None)
    ELSE LET rhs == do_expr(c, local_.value[1])
         IN  IF rhs.status # "ok" THEN rhs
             ELSE do_let_pattern(rhs.c, local_.pattern, Some(rhs.value))

\* Compiler::let_pattern
let_pattern(c, pattern, rhs) ==
    IF pattern.tag = "Type"
    THEN do_let_pattern_inner(c, pattern.pattern, Some(pattern.kind), rhs)
    ELSE do_let_pattern_inner(c, pattern, None, rhs)

\* self.types.insert(reg, ty)
types_insert(c, slot, ty) == [c EXCEPT !.types = (slot.ndx :> ty) @@ @]

\* the arm of let_pattern_inner for ast::Pattern::Ident, lhs bound
let_ident(c, lhs, ty, rhs) ==
    MbOk(IF rhs = None
         THEN IF ty = None THEN c ELSE types_insert(c, lhs, ty[1])
         ELSE op(IF ty = None THEN c ELSE types_insert(c, lhs, ty[1]),
                 CopyOp(lhs, rhs[1])),
         Empty)

\* Compiler::let_pattern_inner
let_pattern_inner(c, pattern, ty, rhs) ==
    CASE pattern.tag = "Ident" ->
             let_ident(bind(c, pattern.name).c, bind(c, pattern.name).value, ty, rhs)
      [] pattern.tag = "Tuple" -> do_let_pattern_tuple(c, pattern.elems, ty, rhs, 1)
      [] OTHER -> MbPanic("not yet implemented: Unsupported let pattern")

\* one element of the tuple: its register element_lhs, the opcode that
\* extracts it from rhs, and its type
let_element(c, element_lhs, pat, ty, rhs, ndx) ==
    IF ty = None
    THEN do_let_pattern_inner(IF rhs = None THEN c
                           ELSE op(c, FieldOp(element_lhs, rhs[1], ndx)),
                           pat, None,
                           IF rhs = None THEN None ELSE Some(element_lhs))
    ELSE IF get_tuple_kind(ty[1], ndx).status # "ok"
         THEN get_tuple_kind(ty[1], ndx)
         ELSE do_let_pattern_inner(
                  types_insert(IF rhs = None THEN c
                               ELSE op(c, FieldOp(element_lhs, rhs[1], ndx)),
                               element_lhs, get_tuple_kind(ty[1], ndx).value),
                  pat, Some(get_tuple_kind(ty[1], ndx).value),
                  IF rhs = None THEN None ELSE Some(element_lhs))

\* the arm of let_pattern_inner for ast::Pattern::Tuple, from element k
let_pattern_tuple(c, elems, ty, rhs, k) ==
    IF k > Len(elems) THEN MbOk(c, Empty)
    ELSE LET element == let_element(reg(c).c, reg(c).value, elems[k], ty, rhs, k - 1)
         IN  IF element.status # "ok" THEN element
             ELSE do_let_pattern_tuple(element.c, elems, ty, rhs, k + 1)

\* expr_if once the condition is compiled
if_branches(c, if_expr, lhs, cond) ==
    LET then_branch == do_expr_block(c, if_expr.then_branch, lhs)
    IN  IF then_branch.status # "ok" THEN then_branch
        ELSE LET else_branch == do_wrap_expr_in_block(then_branch.c,
                                                   if_expr.else_branch, lhs)
             IN  IF else_branch.status # "ok" THEN else_branch
                 ELSE MbOk(op(else_branch.c,
                              IfOp(lhs, cond, then_branch.value, else_branch.value)),
                           lhs)

\* Compiler::expr_if
expr_if(c, if_expr) ==
    LET cond == do_expr(reg(c).c, if_expr.cond)
    IN  IF cond.status # "ok" THEN cond
        ELSE if_branches(cond.c, if_expr, reg(c).value, cond.value)

\* Compiler::expr_block_inner, from statement k
expr_block_inner(c, statements, lhs, k) ==
    IF k > Len(statements) THEN MbOk(c, <<>>)
    ELSE LET rhs == do_stmt(c, statements[k])
         IN  IF rhs.status # "ok" THEN rhs
             ELSE IF k = Len(statements)
                  THEN MbOk(op(rhs.c, CopyOp(lhs, rhs.value)), <<>>)
                  ELSE do_expr_block_inner(rhs.c, statements, lhs, k + 1)

\* Compiler::expr_block
expr_block(c, block, lhs) ==
    LET inner == do_expr_block_inner(new_block(c, lhs).c, block.stmts, lhs, 1)
    IN  IF inner.status # "ok" THEN inner
        ELSE MbOk(set_block(inner.c, c.active_block), new_block(c, lhs).value)

\* wrap_expr_in_block without a block for the missing expression
wrap_expr_in_active_block(c, expr_, lhs) ==
    IF expr_ = None
    THEN MbOk(c, c.active_block)
    ELSE do_expr_block(c, AstBlock(<<StmtExpr(expr_[1])>>), lhs)

\* Compiler::wrap_expr_in_block
wrap_expr_in_block(c, expr_, lhs) ==
    IF expr_ = None
    THEN do_expr_block(c, AstBlock(<<>>), lhs)
    ELSE do_expr_block(c, AstBlock(<<StmtExpr(expr_[1])>>), lhs)

\* the method named, applied to the arguments
self_call(method, args) ==
    CASE method = "expr" -> expr(args[1], args[2])
      [] method = "expr_list" -> expr_list(args[1], args[2], args[3], args[4])
      [] method = "tuple" -> tuple(args[1], args[2])
      [] method = "expr_call" -> expr_call(args[1], args[2])
      [] method = "expr_unop" -> expr_unop(args[1], args[2])
      [] method = "expr_binop" -> expr_binop(args[1], args[2])
      [] method = "expr_match" -> expr_match(args[1], args[2])
      [] method = "expr_rom" -> expr_rom(args[1], args[2])
      [] method = "expr_arms" -> expr_arms(args[1], args[2], args[3], args[4], args[5], args[6])
      [] method = "expr_arm" -> expr_arm(args[1], args[2], args[3], args[4])
      [] method = "expr_arm_tuple_struct" -> expr_arm_tuple_struct(args[1], args[2], args[3], args[4], args[5])
      [] method = "expr_lhs" -> expr_lhs(args[1], args[2])
      [] method = "expr_assign" -> expr_assign(args[1], args[2])
      [] method = "stmt" -> stmt(args[1], args[2])
      [] method = "local" -> local(args[1], args[2])
      [] method = "let_pattern" -> let_pattern(args[1], args[2], args[3])
      [] method = "let_pattern_inner" -> let_pattern_inner(args[1], args[2], args[3], args[4])
      [] method = "let_pattern_tuple" -> let_pattern_tuple(args[1], args[2], args[3], args[4], args[5])
      [] method = "expr_if" -> expr_if(args[1], args[2])
      [] method = "expr_block_inner" -> expr_block_inner(args[1], args[2], args[3], args[4])
      [] method = "expr_block" -> expr_block(args[1], args[2], args[3])
      [] method = "wrap_expr_in_block" -> wrap_expr_in_block(args[1], args[2], args[3])

\* the expressions compiled: operands first
MbLeaves == {ExprLit(1), ExprPath("a"), ExprPath("z"), ExprField(ExprPath("a"), 0)}

\* patterns of match arms: wildcard, literal, enum variants, and an identifier
MbArmPatterns ==
    {PatWild, PatLit(1), PatPath("E::A"),
     PatTupleStruct("E::B", <<PatIdent("b"), PatWild>>),
     PatTupleStruct("E::B", <<PatLit(1)>>),
     PatIdent("n")}

MbArms ==
    {Arm(pattern, guard, body) :
        pattern \in MbArmPatterns,
        guard \in {None, Some(ExprLit(1))},
        body \in {ExprLit(1), ExprPath("b")}}

MbMatches == {ExprMatch(ExprPath("a"), <<first, second>>) : first, second \in MbArms}

MbThen ==
    {AstBlock(<<>>), AstBlock(<<StmtExpr(ExprLit(1))>>),
     AstBlock(<<StmtSemi(ExprPath("a"))>>)}

MbElse ==
    {None, Some(ExprLit(0)), Some(ExprPath("z")), Some(ExprBlock(AstBlock(<<>>)))}

MbPlainIfs ==
    {ExprIf(cond, then_branch, else_branch) :
        cond \in {ExprPath("a"), ExprLit(1)},
        then_branch \in MbThen,
        else_branch \in MbElse}

\* `if .. {} else if .. {}` as well
MbIfs ==
    MbPlainIfs \cup
    {ExprIf(ExprPath("a"), then_branch, Some(else_if)) :
        then_branch \in MbThen, else_if \in MbPlainIfs}

MbAssigns ==
    {ExprAssign(lhs, rhs) :
        lhs \in {ExprPath("a"), ExprPath("z"), ExprField(ExprPath("a"), 0),
                 ExprIndex(ExprPath("a"), ExprLit(0)), ExprLit(1)},
        rhs \in {ExprLit(1), ExprPath("a")}}

MbOthers ==
    {ExprParen(ExprPath("a")), ExprUnary("Neg", ExprPath("a")),
     ExprBinary("Add", ExprPath("a"), ExprLit(1)),
     ExprBinary("AddAssign", ExprPath("a"), ExprLit(1)),
     ExprTuple(<<ExprPath("a"), ExprLit(1)>>),
     ExprCall("f", <<ExprPath("a")>>),
     ExprBlock(AstBlock(<<StmtExpr(ExprPath("a"))>>))}

MbExprs == MbLeaves \cup MbMatches \cup MbIfs \cup MbAssigns \cup MbOthers

\* patterns of `let`: those that bind a, with and without a type, and others
MbLetPatterns ==
    {PatIdent("a"), PatType(PatIdent("a"), Bits(1)),
     PatTuple(<<PatIdent("a"), PatIdent("q")>>),
     PatType(PatTuple(<<PatIdent("a")>>), KTuple(<<Bits(1)>>)),
     PatType(PatTuple(<<PatIdent("a")>>), Bits(1)),
     PatWild, PatLit(1)}

MbLets ==
    {StmtLocal(pattern, value) :
        pattern \in MbLetPatterns, value \in {None, Some(ExprLit(1))}}

\* the kernels compiled: `{ let ..; e }` and `{ let ..; e; }`, and `{}`
MbAsts ==
    {AstBlock(<<>>)} \cup
    {AstBlock(<<first, StmtExpr(e)>>) : first \in MbLets, e \in MbExprs} \cup
    {AstBlock(<<first, StmtSemi(e)>>) : first \in MbLets, e \in MbExprs}

\* what compile has returned
MbReturned(result) ==
    IF result.status = "ok"
    THEN [status |-> "ok", value |-> result.value]
    ELSE [status |-> result.status, error |-> result.error]

\* Compiler::default().compile(ast); the builder is looked at after Ok only
MBCompile ==
    /\ mb_ast # <<>>
    /\ mb_result = <<>>
    /\ mb_result' = MbReturned(compile(mb_compiler, mb_ast))
    /\ mb_compiler' = IF compile(mb_compiler, mb_ast).status = "ok"
                      THEN compile(mb_compiler, mb_ast).c
                      ELSE <<>>
    /\ UNCHANGED mb_ast
    /\ UNCHANGED <<cc_vars, dfg_vars, vm_vars, inf_vars, tb_vars, mux_vars, stc_vars, cpe_vars, axi_vars>>

MBInit ==
    /\ mb_ast \in MbAsts
    /\ mb_compiler = DefaultCompiler
    /\ mb_result = <<>>
    /\ CCIdle
    /\ DFGIdle
    /\ VMIdle
    /\ InfIdle
    /\ TBIdle
    /\ MuxIdle
    /\ STCIdle
    /\ CPEIdle
    /\ AXIIdle

MBNext == MBCompile

SpecBuild == MBInit /\ [][MBNext]_vars

(***************************************************************************)
(* Claims about the builder.                                               *)
(***************************************************************************)
\* compile has returned Ok
MbCompiled == mb_result # <<>> /\ mb_result.status = "ok"

\* the kernel is `{ let ..; e }` or `{ let ..; e; }` with e of the given form
MbBodyIs(tag) == Len(mb_ast.stmts) = 2 /\ mb_ast.stmts[2].expr.tag = tag

\* the conditional op in block b: its branches are two different blocks, both
\* children of b, and the result of both is the destination of the op
IfOpShape(c, b, opcode) ==
    /\ opcode.then_branch # opcode.else_branch
    /\ \A id \in {opcode.then_branch, opcode.else_branch} :
           /\ id + 1 \in DOMAIN c.blocks
           /\ \E k \in DOMAIN c.blocks[b].children : c.blocks[b].children[k] = id
           /\ c.blocks[id + 1].parent = c.blocks[b].id
           /\ c.blocks[id + 1].result = opcode.lhs

\* the conditional op compiled for if_expr is opcode: its else block is empty
\* exactly when if_expr has no else
IfOpElse(c, if_expr, opcode) ==
    /\ opcode.code = "If"
    /\ if_expr.else_branch = None <=> c.blocks[opcode.else_branch + 1].ops = <<>>

\* the last but one op of block id: the one before the copy to its result
LastButOne(c, id) == c.blocks[id + 1].ops[Len(c.blocks[id + 1].ops) - 1]

\* C23: every conditional that the builder emits has its then branch and
\* its else branch in two separate blocks that share the destination slot
\* of the conditional; the else block of an `if` without `else` is empty (no
\* opcode writes the destination), and that of an `if` with `else` is not.
MBIfBranchesAreSeparateBlocks ==
    MbCompiled =>
        /\ \A b \in DOMAIN mb_compiler.blocks :
               \A k \in DOMAIN mb_compiler.blocks[b].ops :
                   mb_compiler.blocks[b].ops[k].code = "If" =>
                       IfOpShape(mb_compiler, b, mb_compiler.blocks[b].ops[k])
        /\ MbBodyIs("If") =>
               /\ Len(mb_compiler.blocks[2].ops) >= 2
               /\ IfOpElse(mb_compiler, mb_ast.stmts[2].expr,
                           LastButOne(mb_compiler, 1))
               /\ (/\ mb_ast.stmts[2].expr.else_branch # None
                   /\ mb_ast.stmts[2].expr.else_branch[1].tag = "If") =>
                      IfOpElse(mb_compiler, mb_ast.stmts[2].expr.else_branch[1],
                               LastButOne(mb_compiler,
                                          LastButOne(mb_compiler, 1).else_branch))

\* an `if` without `else` has been compiled
MBIfWithoutElseWitness ==
    /\ MbCompiled
    /\ MbBodyIs("If")
    /\ mb_ast.stmts[2].expr.else_branch = None
    /\ mb_compiler.blocks[LastButOne(mb_compiler, 1).else_branch + 1].ops = <<>>

\* the match is of one of the two supported shapes, and has no guard
MatchSupported(match_) ==
    /\ \A k \in DOMAIN match_.arms : match_.arms[k].guard = None
    /\ \/ \A k \in DOMAIN match_.arms : match_.arms[k].pattern.tag \in {"Lit", "Wild"}
       \/ \A k \in DOMAIN match_.arms :
              match_.arms[k].pattern.tag \in {"Path", "Struct", "TupleStruct", "Wild"}

\* the `let` before the body compiles, so that the body is reached
MbLetCompiles ==
    stmt(new_block(reg(DefaultCompiler).c, reg(DefaultCompiler).value).c,
         mb_ast.stmts[1]).status = "ok"

\* C24: a match that the builder accepts has no guard and has arms that are
\* all literals or wildcards, or all enum variants or wildcards; a match
\* that is not so, once reached, is rejected with an error.
MBMatchAcceptedOnlyInTwoShapes ==
    (mb_result # <<>> /\ MbBodyIs("Match")) =>
        /\ mb_result.status = "ok" => MatchSupported(mb_ast.stmts[2].expr)
        /\ (MbLetCompiles /\ ~MatchSupported(mb_ast.stmts[2].expr)) =>
               /\ mb_result.status = "err"
               /\ mb_result.error \in
                      {"RHDL does not currently support match guards in hardware",
                       "RHDL currently supports only match arms with all literals or all enums"}

\* a match with arms of mixed shapes has been rejected
MBMatchRejectedWitness ==
    /\ mb_result # <<>>
    /\ MbBodyIs("Match")
    /\ MbLetCompiles
    /\ \A k \in DOMAIN mb_ast.stmts[2].expr.arms :
           mb_ast.stmts[2].expr.arms[k].guard = None
    /\ ~MatchSupported(mb_ast.stmts[2].expr)
    /\ mb_result.status = "err"

\* C25 (as claimed): whatever the AST, compile returns Ok or an error; it
\* never panics.
MBCompileNeverPanics ==
    mb_result # <<>> => mb_result.status \in {"ok", "err"}

====
